---- MODULE Spec2Model ----
(***************************************************************************)
(* A model of the board-facing half of arduino/upy-packager: the chunked   *)
(* writer writeFile (logic/micropython-extensions.js) and the installer    *)
(* PackageInstaller.installPackage (logic/package-installer.js, latest     *)
(* revision) with the helpers it calls.                                    *)
(*                                                                         *)
(* Strings are sequences of symbols.  The framing symbols of a raw REPL    *)
(* reply are single characters ("O","K","1","0","CR","LF","EOT",">"); a    *)
(* phrase the host only searches for or passes on is one symbol.  A path   *)
(* is the sequence of its segments.  Bytes are integers.                   *)
(*                                                                         *)
(* The board is the environment: every board operation returns, the reply  *)
(* to a statement whose text the host sends in full (os.stat) is computed  *)
(* from the board's file system, and the reply of a helper script that is  *)
(* not part of the host sources is any member of a set of possible         *)
(* replies.                                                                *)
(***************************************************************************)
EXTENDS Integers, Sequences, FiniteSets, TLC

\* ------------------------------------------------------------- bounds
MaxFileLen == 3
MaxChunk == 3

\* ------------------------------------------------- program constants
DefaultChunkSize == 512
CrcLength == 4

Bytes == {7, 200}
Null == <<"null">>
NoFile == << 0 - 1 >>

Min(a, b) == IF a < b THEN a ELSE b
Max(a, b) == IF a > b THEN a ELSE b

\* ------------------------------------------------------ string helpers
\* String.prototype.slice(start, end) on a sequence of symbols
SliceJS(s, start, end) ==
    LET n  == Len(s)
        from == IF start < 0 THEN Max(n + start, 0) ELSE Min(start, n)
        to   == IF end < 0 THEN Max(n + end, 0) ELSE Min(end, n)
    IN  IF to <= from THEN <<>> ELSE SubSeq(s, from + 1, to)

EndsWith(s, suffix) ==
    /\ Len(s) >= Len(suffix)
    /\ SubSeq(s, Len(s) - Len(suffix) + 1, Len(s)) = suffix

\* String.prototype.includes for a one-symbol phrase
Includes(s, sym) == \E k \in 1..Len(s) : s[k] = sym

extractREPLMessageUnstripped(out, stripTrailingLinebreak) == SliceJS(out, 2, -3)

\* lines 124-134
extractREPLMessage(out, stripTrailingLinebreak) ==
    LET output == SliceJS(out, 2, -3)
    IN  IF stripTrailingLinebreak /\ EndsWith(output, <<"CR", "LF">>)
        THEN SliceJS(output, 0, -2)
        ELSE output

\* A raw reply "OK<stdout>\x04<stderr>\x04>"
Reply(stdout, stderr) == <<"O", "K">> \o stdout \o <<"EOT">> \o stderr \o <<"EOT", ">">>
Printed(sym) == Reply(<<sym, "CR", "LF">>, <<>>)
ReplyEmpty == Reply(<<>>, <<>>)
ReplyTraceback == Reply(<<>>, <<"Traceback", "CR", "LF">>)

\* ---------------------------------------------------------------- CRC
\* CRC32.buf of the crc-32 package: a signed 32-bit integer.  The package is
\* not part of the sources; the model uses a fixed function of the payload
\* whose values take both signs.
RECURSIVE Adler(_, _)
Adler(data, k) ==
    IF k = 0 THEN 1 ELSE ((Adler(data, k - 1) * 31) + data[k] + k) % 65521

CRC32buf(data) == (Adler(data, Len(data)) * 32749) - 1073741824

getCRC32LittleEndian(data) ==
    LET crc == CRC32buf(data)
        t   == IF crc < 0 THEN (crc + 2147483647) + 1 ELSE crc
        top == IF crc < 0 THEN 128 + (t \div 16777216) ELSE t \div 16777216
    IN  << t % 256, (t \div 256) % 256, (t \div 65536) % 256, top >>

\* crc >>> 0 followed by DataView.setUint32(0, crc): the big-endian bytes of
\* the signed value taken modulo 2^32.  For a negative value v the top byte
\* of v + 2^32 is 128 + ((v + 2^31) div 2^24).
getCRC32(data) ==
    LET crc == CRC32buf(data)
        t   == IF crc < 0 THEN (crc + 2147483647) + 1 ELSE crc
        top == IF crc < 0 THEN 128 + (t \div 16777216) ELSE t \div 16777216
    IN  << top, (t \div 65536) % 256, (t \div 256) % 256, t % 256 >>

\* -------------------------------------------------------------- state
VARIABLES
    entry,              \* the exported operation that was called
    pc,                 \* position of the call
    result,             \* "pending", "resolved" or "rejected"
    error,              \* the error the call rejects with
    wfResult,           \* the promise writeFile returned: "pending", "resolved" or "rejected"
    src,                \* writeFile: contentBuffer, the bytes of the source file
    hasPaths,           \* writeFile: src && dest
    chunkSize,          \* writeFile: chunkSize
    i,                  \* writeFile: i
    currentProgress,    \* writeFile: currentProgress
    output,             \* writeFile: output, the last raw reply
    progress,           \* values handed to data_consumer, in order
    packageFiles,       \* installPackage: packageFiles
    overwriteExisting,  \* installPackage: overwriteExisting
    libraryPath,        \* PackageInstaller.libraryPath
    fileIdx,            \* installPackage: position in filesInLibRoot
    folderIdx,          \* installPackage: position in packageFolders
    hashOut,            \* verifyHash: the raw reply to validate_hash
    boardFs,            \* board: the paths that exist under the library folders
    boardFs0,           \* board: boardFs when the call began
    sysLibPath,         \* board: the entry of sys.path containing "/lib", or <<>>
    boardD,             \* board: the variable d
    boardFile,          \* board: the bytes of the destination file, NoFile if absent
    writes,             \* board: the payloads written by w(d[:-4]), in order
    raw,                \* board: in raw REPL mode
    fOpen,              \* board: the handle f is open
    log,                \* the board operations issued, in order
    compileFiles,       \* Packager.compileFiles
    ctorOverwrite,      \* Packager.overwriteExisting
    fourthArg,          \* packageAndInstall: the fourth argument of the call, "omitted" if none
    closePort,          \* package: closePort
    customPackageJson,  \* the custom manifest handed in, NoManifest if none
    repoPackageJson,    \* host: the package.json of the repository
    version,            \* package: version, a sequence of symbols
    compilerFormat,     \* host: what mpy-cross --version yields
    canOpen,            \* host: whether the serial port can be opened
    sessionOpen,        \* board.serial.isOpen
    closedBy,           \* the method that closed the session, "none" if still open or never closed
    mpyFormat,          \* package: mpyFormat
    hook,               \* packageForArchitectureAndFormat: downloadedFileCallback is set
    fetched,            \* archiver: package.json was fetched
    packageJson,        \* downloadFilesFromRepository: packageJson
    staging,            \* host: the directory of downloaded files: "none", "exists", "removed"
    staged,             \* host: the relative paths of the files in the staging directory
    downloads,          \* the downloadFile promises: "started", "written", "done", "failed"
    archiveFile,        \* host: the archive file: "none", "writing", "partial", "written", "removed"
    archiveName,        \* archiveRepository: versionForTarFile
    archived,           \* host: the relative paths of the files in the archive
    archiveResult,      \* package: archiveResult, the package files of the ArchiveResult
    tarFilePath,        \* packageAndInstall: tarFilePath is set
    compileErrors,      \* the paths for which the hook reported "Compilation failed"
    repoUrl,            \* RepositoryArchiver.repoUrl / the url handed to getRawFileURL
    rawFileURL,         \* what getRawFileURL returned for repoUrl
    rewrittenAgain,     \* what getRawFileURL returned for rawFileURL
    tarGzFileName,      \* archiveRepository: tarGzFileName
    inFlight,           \* board operations that were issued and have not completed
    portVersion,        \* getMicroPythonVersionFromPort: version
    replyParts,         \* the raw reply a helper reads: prefix, stdout, stderr, and stripTrailingLinebreak
    replyResult         \* what the helpers make of the raw reply

inputs == << entry, src, hasPaths, packageFiles, overwriteExisting, boardFs0, sysLibPath >>
wvars  == << wfResult, chunkSize, i, currentProgress, output, progress >>
ivars  == << libraryPath, fileIdx, folderIdx, hashOut >>
bvars  == << boardFs, boardD, boardFile, writes, raw, fOpen >>
pinputs == << compileFiles, ctorOverwrite, fourthArg, customPackageJson, repoPackageJson,
              version, compilerFormat, canOpen >>
pstate == << closePort, sessionOpen, closedBy, mpyFormat, hook, fetched, packageJson, staging,
             staged, downloads, archiveFile, archiveName, archived, archiveResult, tarFilePath,
             compileErrors >>
uvars  == << repoUrl, rawFileURL, rewrittenAgain, tarGzFileName >>
rvars  == << replyParts, replyResult >>
pvars  == << pinputs, pstate, uvars, inFlight, portVersion, rvars, rvars >>
vars   == << pc, result, error, inputs, wvars, ivars, bvars, log, pvars >>

\* ------------------------------------------------------------- inputs
RECURSIVE SeqsUpTo(_, _)
SeqsUpTo(S, n) ==
    IF n = 0 THEN { <<>> }
    ELSE LET shorter == SeqsUpTo(S, n - 1)
         IN  shorter \cup { Append(s, x) : s \in shorter, x \in S }

Files == SeqsUpTo(Bytes, MaxFileLen)

\* the archive handed to installPackage
Archive == << 200, 7 >>
ArchiveName == "pkg-1.0.0.tar.gz"

DefaultLibPath == << "/lib" >>

\* target paths of a package: lists of path segments, as entry.split('/') sees them
PackageFileLists ==
    { <<>>,
      << << "a.py" >> >>,
      << << "m", "x.py" >> >>,
      << << "m", "x.py" >>, << "m", "z.py" >> >>,
      << << "a.py" >>, << "m", "x.py" >> >>,
      << << "m", "x.py" >>, << "n", "y.py" >> >>,
      << << "n", "y.py" >>, << "m", "x.py" >> >>,
      << << "b.py" >>, << "a.py" >> >>,
      << << "m", "x.py" >>, << "a.py" >>, << "n", "y.py" >> >> }

\* what may exist on the board before the call: the top-level entries of the
\* package under the default library path, and "m" under the other one
FsPool(files) ==
    { DefaultLibPath \o << files[k][1] >> : k \in 1..Len(files) }
    \cup { << "/flash/lib", files[k][1] >> : k \in { j \in 1..Len(files) : files[j][1] = "m" } }

\* the installer's preset library path and the board's sys.path entry
LibConfigs == { << Null, <<>> >>, << Null, << "/flash/lib" >> >>, << DefaultLibPath, <<>> >> }

\* ------------------------------------------------------------- errors
NoError == [kind |-> "none", detail |-> <<>>, wrapped |-> FALSE]
Err(kind, detail) == [kind |-> kind, detail |-> detail, wrapped |-> FALSE]
\* new Error(`Couldn't install package: ${error.message}`)
Wrap(e) == [e EXCEPT !.wrapped = TRUE]

\* ---------------------------------------------------------------- log
Op(op, stmt, arg) == [op |-> op, stmt |-> stmt, arg |-> arg]
GetPrompt == Op("get_prompt", "", <<>>)
EnterRaw == Op("enter_raw_repl", "", <<>>)
ExitRaw == Op("exit_raw_repl", "", <<>>)
ExecRaw(stmt, arg) == Op("exec_raw", stmt, arg)
ExecFile(script) == Op("execfile", script, <<>>)
FsRm(path) == Op("fs_rm", "", << path >>)

TypeOK ==
    /\ entry \in { "writeFile", "installPackage", "package", "packageAndInstall",
                  "getRawFileURL", "archiveRepository", "getMicroPythonVersionFromPort",
                  "extractREPLMessage" }
    /\ pc \in { "writeFile", "writeLoop", "installPackage", "rootFiles", "folders",
                "verify", "extract", "finally", "done", "package", "packageAndInstall",
                "packageForArchitectureAndFormat", "downloadFilesFromRepository",
                "awaitDownloads", "createTarGzArchive", "finallyOfPackage",
                "callInstallPackage", "finallyOfPackageAndInstall", "getRawFileURL",
                "getRawFileURLAgain", "tarGzFileName", "getMicroPythonVersionFromPort",
                "getMicroPythonVersionFromBoard", "closePort", "extractREPLMessage" }
    /\ result \in { "pending", "resolved", "rejected" }
    /\ wfResult \in { "pending", "resolved", "rejected" }
    /\ src \in Files \cup { Archive }
    /\ chunkSize \in 0..DefaultChunkSize
    /\ i \in 0..(MaxFileLen + DefaultChunkSize)
    /\ raw \in BOOLEAN /\ fOpen \in BOOLEAN
    /\ \A path \in boardFs : path[1] \in { "/lib", "/flash/lib" }
    /\ inFlight \in 0..1

\* the values of a manifest that was not supplied and of formats that are null or NaN
NoManifest == [name |-> "", version |-> <<>>, urls |-> <<>>, deps |-> <<>>]
FormatNull == 0 - 1
FormatNaN == 0 - 2

\* a url: the host part up to its last '/' or ':' and the rest split at '/',
\* each segment a sequence of symbols
NoUrl == [host |-> "", parts |-> <<>>]

\* no raw reply is being read outside a call
NoReplyParts == [prefix |-> <<>>, stdout |-> <<>>, stderr |-> <<>>, strip |-> TRUE]
NoReplyResult == [message |-> <<>>, exists |-> FALSE, crcCorrect |-> FALSE, hashMatches |-> FALSE]

ReplyIdle ==
    /\ replyParts = NoReplyParts
    /\ replyResult = NoReplyResult

\* no url is being rewritten and no archive is being named
UrlIdle ==
    /\ repoUrl = NoUrl
    /\ rawFileURL = NoUrl
    /\ rewrittenAgain = NoUrl
    /\ tarGzFileName = <<>>

\* the state of a Packager no method of which is running
PackagerIdle ==
    /\ UrlIdle
    /\ compileFiles = FALSE
    /\ ctorOverwrite = TRUE
    /\ fourthArg = "omitted"
    /\ closePort = TRUE
    /\ customPackageJson = NoManifest
    /\ repoPackageJson = NoManifest
    /\ version = << "HEAD" >>
    /\ compilerFormat = FormatNull
    /\ canOpen = TRUE
    /\ sessionOpen = TRUE
    /\ closedBy = "none"
    /\ mpyFormat = FormatNull
    /\ hook = FALSE
    /\ fetched = FALSE
    /\ packageJson = NoManifest
    /\ staging = "none"
    /\ staged = {}
    /\ downloads = <<>>
    /\ archiveFile = "none"
    /\ archiveName = <<>>
    /\ archived = {}
    /\ archiveResult = <<>>
    /\ tarFilePath = FALSE
    /\ compileErrors = {}

Init ==
    /\ entry \in { "writeFile", "installPackage" }
    /\ pc = entry
    /\ result = "pending"
    /\ error = NoError
    /\ wfResult = "pending"
    /\ hasPaths \in (IF entry = "writeFile" THEN BOOLEAN ELSE { TRUE })
    /\ src \in (IF entry = "writeFile" THEN Files ELSE { Archive })
    /\ chunkSize \in (IF entry = "writeFile" THEN (1..MaxChunk) \cup { DefaultChunkSize }
                                             ELSE { DefaultChunkSize })
    /\ i = 0
    /\ currentProgress = 0
    /\ output = <<>>
    /\ progress = <<>>
    /\ packageFiles \in (IF entry = "installPackage" THEN PackageFileLists ELSE { <<>> })
    /\ overwriteExisting \in (IF entry = "installPackage" THEN BOOLEAN ELSE { TRUE })
    /\ \E config \in (IF entry = "installPackage" THEN LibConfigs ELSE { << Null, <<>> >> }) :
         /\ libraryPath = config[1]
         /\ sysLibPath = config[2]
    /\ fileIdx = 1
    /\ folderIdx = 1
    /\ hashOut = <<>>
    /\ boardFs0 \in SUBSET FsPool(packageFiles)
    /\ boardFs = boardFs0
    /\ boardD = <<>>
    /\ boardFile = NoFile
    /\ writes = <<>>
    /\ raw = FALSE
    /\ fOpen = FALSE
    /\ log = <<>>
    /\ inFlight = 0
    /\ portVersion = <<>>
    /\ ReplyIdle
    /\ PackagerIdle

NextStageSkippingVerify(stage) ==
    CASE stage = "upload" -> "extract"
      [] stage = "verify" -> "extract"
      [] OTHER -> "finally"

\* the order of the steps of installPackage lines 354-356 and uploadArchive
\* lines 228-237: writeFile, then verifyHash, then extractArchiveOnBoard
NextStage(stage) ==
    CASE stage = "upload" -> "verify"
      [] stage = "verify" -> "extract"
      [] OTHER -> "finally"

\* --------------------------------------------------- failure delivery
ThrowPastFinally(e) ==
    /\ pc' = "done"
    /\ error' = IF entry # "writeFile" THEN Wrap(e) ELSE e
    /\ result' = "rejected"

\* A rejection of the running helper.  Inside installPackage it is caught by
\* the catch block, which rethrows it wrapped, and the finally block follows;
\* a direct call rejects with it.
Throw(e) ==
    IF entry # "writeFile"
    THEN /\ pc' = "finally"
         /\ error' = Wrap(e)
         /\ result' = result
    ELSE /\ pc' = "done"
         /\ error' = e
         /\ result' = "rejected"

\* ---------------------------------------------------------- writeFile
\* return Promise.reject(new Error(...)) in writeFile
Reject(e) ==
    /\ wfResult' = "rejected"
    /\ Throw(e)

\* replies of the board to execfile(crc.py)
CrcScriptReplies == { ReplyEmpty, ReplyTraceback }

\* replies of the board to "d=bytes([...]);print(1 if validate_crc(d) else 0)"
CrcReplies == { Printed("1"), Printed("0"), ReplyTraceback }

SubarrayToEnd(buf, from, to) ==
    IF from >= Len(buf) THEN <<>> ELSE SubSeq(buf, from + 1, Len(buf))

\* contentBuffer.subarray(i, i + chunkSize)
Subarray(buf, from, to) ==
    IF from >= Len(buf) THEN <<>> ELSE SubSeq(buf, from + 1, Min(to, Len(buf)))

\* mergedData: the slice followed by its CRC
MergedData(slice) == slice \o getCRC32(slice)

\* d[:-4] on the board
PayloadOf(d) == SliceJS(d, 0, 0 - CrcLength)

\* output.slice(2, -5) == '1'
CrcCorrect(out) == SliceJS(out, 2, 0 - 5) = << "1" >>

HalvedRoundingUp(size) == (size + 1) \div 2

\* Math.floor(chunkSize / 2)
Halved(size) == size \div 2

TooSmallAtOne(size) == size <= 1

\* chunkSize < 1
TooSmall(size) == size < 1

ChunkEndIndexAfterHalving(offset, size) == offset + (size \div 2)

\* chunkEndIndex = i + chunkSize
ChunkEndIndex(offset, size) == offset + size

AdvanceSkipping(offset, size) == offset + size + 1

AdvanceNowhere(offset, size) == offset

\* i += chunkSize
Advance(offset, size) == offset + size

NewProgressAfterWrite(offset, length) == ((offset + 1) * 100) \div length

\* parseInt((i / contentBuffer.length) * 100)
NewProgress(offset, length) == (offset * 100) \div length

\* lines 204-219: prompt, crc.py, raw mode, open the destination
WriteFileBegin ==
    /\ pc = "writeFile"
    /\ IF ~hasPaths
       THEN /\ log' = Append(log, GetPrompt)
            /\ Reject(Err("Must specify source and destination paths", <<>>))
            /\ UNCHANGED << chunkSize, i, currentProgress, output, progress, bvars >>
       ELSE \E out \in CrcScriptReplies :
              IF SliceJS(out, 2, 0 - 3) # <<>>
              THEN /\ log' = log \o << GetPrompt, ExecFile("crc.py") >>
                   /\ Reject(Err("Error executing Python script", out))
                   /\ output' = out
                   /\ UNCHANGED << chunkSize, i, currentProgress, progress, bvars >>
              ELSE /\ log' = log \o << GetPrompt, ExecFile("crc.py"), EnterRaw,
                                       ExecRaw("open", << ArchiveName >>) >>
                   /\ output' = out
                   /\ raw' = TRUE
                   /\ fOpen' = TRUE
                   /\ boardFile' = <<>>
                   /\ i' = 0
                   /\ currentProgress' = 0
                   /\ pc' = "writeLoop"
                   /\ UNCHANGED << result, error, wfResult, chunkSize, progress, boardFs, boardD, writes >>
    /\ UNCHANGED << inputs, ivars >>
    /\ UNCHANGED pvars

\* lines 221-254: one iteration of the loop
WriteChunk ==
    /\ pc = "writeLoop"
    /\ i < Len(src)
    /\ LET slice == Subarray(src, i, i + chunkSize)
           mergedData == MergedData(slice)
       IN  \E out \in CrcReplies :
             /\ output' = out
             /\ boardD' = mergedData
             /\ IF ~CrcCorrect(out)
                THEN LET chunkEndIndex == ChunkEndIndex(i, chunkSize)
                     IN  /\ chunkSize' = Halved(chunkSize)
                         /\ IF TooSmall(chunkSize')
                            THEN /\ log' = log \o << ExecRaw("crc", << i, Len(slice) >>),
                                                     ExecRaw("f.close", <<>>) >>
                                 /\ fOpen' = FALSE
                                 /\ Reject(Err("CRC32 check failed at byte", << i, chunkEndIndex >>))
                            ELSE /\ log' = Append(log, ExecRaw("crc", << i, Len(slice) >>))
                                 /\ UNCHANGED << pc, result, error, wfResult, fOpen >>
                         /\ UNCHANGED << i, currentProgress, progress, boardFile, writes >>
                ELSE LET newProgress == NewProgress(i, Len(src))
                     IN  /\ log' = log \o << ExecRaw("crc", << i, Len(slice) >>),
                                             ExecRaw("w(d[:-4])", <<>>) >>
                         /\ boardFile' = boardFile \o PayloadOf(boardD')
                         /\ writes' = Append(writes, PayloadOf(boardD'))
                         /\ IF newProgress # currentProgress
                            THEN /\ progress' = Append(progress, newProgress)
                                 /\ currentProgress' = newProgress
                            ELSE UNCHANGED << progress, currentProgress >>
                         /\ i' = Advance(i, chunkSize)
                         /\ UNCHANGED << pc, result, error, wfResult, chunkSize, fOpen >>
    /\ UNCHANGED << inputs, ivars, boardFs, raw >>
    /\ UNCHANGED pvars

\* lines 255-257: close the destination, leave raw mode, resolve
WriteFileEnd ==
    /\ pc = "writeLoop"
    /\ i >= Len(src)
    /\ log' = log \o << ExecRaw("f.close", <<>>), ExitRaw >>
    /\ fOpen' = FALSE
    /\ raw' = FALSE
    /\ wfResult' = "resolved"
    /\ IF entry # "writeFile"
       THEN /\ pc' = NextStage("upload")
            /\ UNCHANGED << result, error >>
       ELSE /\ pc' = "done"
            /\ result' = "resolved"
            /\ UNCHANGED error
    /\ UNCHANGED << inputs, chunkSize, i, currentProgress, output, progress, ivars,
                    boardFs, boardD, boardFile, writes >>
    /\ UNCHANGED pvars

\* ----------------------------------------------------- PackageInstaller
\* getPackageFolders: the first segment of every target path that has more
\* than one segment, duplicates removed, first occurrences kept
RECURSIVE Dedup(_)
Dedup(s) ==
    IF s = <<>> THEN <<>>
    ELSE LET init == Dedup(SubSeq(s, 1, Len(s) - 1))
             last == s[Len(s)]
         IN  IF Includes(init, last) THEN init ELSE Append(init, last)

RECURSIVE FirstSegments(_)
FirstSegments(targetPaths) ==
    IF targetPaths = <<>> THEN <<>>
    ELSE LET parts == Head(targetPaths)
             rest  == FirstSegments(Tail(targetPaths))
         IN  IF Len(parts) > 1 THEN << parts[1] >> \o rest ELSE rest

getPackageFolders(targetPaths) == Dedup(FirstSegments(targetPaths))

\* packageFiles.filter(file => file.split('/').length === 1)
RECURSIVE FilesInLibRoot(_)
FilesInLibRoot(targetPaths) ==
    IF targetPaths = <<>> THEN <<>>
    ELSE LET parts == Head(targetPaths)
             rest  == FilesInLibRoot(Tail(targetPaths))
         IN  IF Len(parts) = 1 THEN << parts[1] >> \o rest ELSE rest

\* path.posix.join(libPath, packagePath): an empty or "." segment is dropped
PosixJoin(libPath, packagePath) ==
    IF packagePath \in { "", "." } THEN libPath ELSE libPath \o << packagePath >>

\* the board's reply to the sys.path statement of getLibrariesSystemPath
SysPathReply ==
    IF sysLibPath = <<>> THEN ReplyEmpty ELSE Reply(sysLibPath \o << "CR", "LF" >>, <<>>)

getLibrariesSystemPath ==
    LET out == extractREPLMessage(SysPathReply, TRUE)
    IN  IF out = <<>> THEN Null ELSE out

\* getLibrariesPath: the value it returns and caches in this.libraryPath
getLibrariesPath(cached) ==
    IF cached = Null
    THEN IF getLibrariesSystemPath = Null THEN DefaultLibPath ELSE getLibrariesSystemPath
    ELSE cached

\* the board operations getLibrariesPath issues
LibPathOps(cached) ==
    IF cached = Null
    THEN << GetPrompt, EnterRaw, ExecRaw("sys.path", <<>>), ExitRaw >>
    ELSE <<>>

\* the board's reply to the os.stat statement of fileOrDirectoryExists
StatReply(path) == IF path \in boardFs THEN Printed("1") ELSE Printed("0")

\* output[2] == '1'
fileOrDirectoryExists(path) == StatReply(path)[3] = "1"

\* the operations of ensureDirectoryExists lines 269-279
EnsureOps(path) == << GetPrompt, EnterRaw, ExecRaw("os.mkdir", path), ExitRaw >>

ExistsOps(path) == << GetPrompt, EnterRaw, ExecRaw("os.stat", path), ExitRaw >>

ChecksRootFilesAlways(overwrite) == TRUE

\* line 335: root-level files are checked only when not overwriting
ChecksRootFiles(overwrite) == ~overwrite

DeletesExistingAlways(overwrite) == TRUE

\* line 345: an existing package folder is deleted when overwriting
DeletesExisting(overwrite) == overwrite

\* replies of the board to remove_directory_recursive
RemoveDirReplies ==
    { ReplyEmpty,
      Reply(<<>>, << "Traceback", "CR", "LF", "OSError:", "[Errno 13] EACCES", "CR", "LF" >>),
      Reply(<<>>, << "Traceback", "CR", "LF", "NameError", "CR", "LF" >>) }

\* replies of the board to execfile of a helper script
ScriptLoadReplies == { ReplyEmpty, ReplyTraceback }

\* replies of the board to validate_hash
HashReplies == { Printed("1"), Printed("0"), ReplyTraceback }

\* replies of the board to 'from tarfile import TarFile, DIRTYPE'
ImportReplies ==
    { ReplyEmpty, Reply(<<>>, << "Traceback", "CR", "LF", "ImportError", "CR", "LF" >>) }

\* replies of the board to untar
UntarReplies ==
    { Reply(<< "Extraction complete", "CR", "LF" >>, <<>>),
      Reply(<< "Creating directory ", "/lib/m", "CR", "LF", "Extraction complete", "CR", "LF" >>, <<>>),
      Reply(<< "Creating directory ", "/lib/m", "CR", "LF" >>,
            << "Traceback", "CR", "LF", "OSError:", "[Errno 17] EEXIST", "CR", "LF" >>),
      Reply(<< "Creating directory ", "/lib/m", "CR", "LF",
               "Creating directory ", "/lib/m/sub", "CR", "LF" >>,
            << "Traceback", "CR", "LF", "OSError:", "[Errno 17] EEXIST", "CR", "LF" >>),
      ReplyTraceback }

\* the folders named by /Creating directory (\S*)\r\n/g, in order
RECURSIVE CreatedFolders(_)
CreatedFolders(out) ==
    IF Len(out) < 4 THEN <<>>
    ELSE IF out[1] = "Creating directory " /\ out[3] = "CR" /\ out[4] = "LF"
         THEN << out[2] >> \o CreatedFolders(SubSeq(out, 5, Len(out)))
         ELSE CreatedFolders(Tail(out))

FirstCreatedFolder(out) ==
    LET createdFolders == CreatedFolders(out)
    IN  IF createdFolders = <<>> THEN "undefined" ELSE createdFolders[1]

\* createdFolders[createdFolders.length - 1]
FailedFolder(out) ==
    LET createdFolders == CreatedFolders(out)
    IN  IF createdFolders = <<>> THEN "undefined" ELSE createdFolders[Len(createdFolders)]

\* lines 326-335: the package folders and root files are derived, the try block is entered
InstallPackageBegin ==
    /\ pc = "installPackage"
    /\ pc' = IF ChecksRootFiles(overwriteExisting) THEN "rootFiles" ELSE "folders"
    /\ fileIdx' = 1
    /\ folderIdx' = 1
    /\ UNCHANGED << result, error, inputs, wvars, libraryPath, hashOut, bvars, log >>
    /\ UNCHANGED pvars

\* lines 336-340: one iteration of the loop over filesInLibRoot, or its end
CheckRootFile ==
    /\ pc = "rootFiles"
    /\ LET filesInLibRoot == FilesInLibRoot(packageFiles)
       IN  IF fileIdx > Len(filesInLibRoot)
           THEN /\ pc' = "folders"
                /\ UNCHANGED << result, error, libraryPath, fileIdx, log >>
           ELSE LET fileInLibRoot == filesInLibRoot[fileIdx]
                    libPath == getLibrariesPath(libraryPath)
                    target  == PosixJoin(libPath, fileInLibRoot)
                IN  /\ libraryPath' = libPath
                    /\ log' = log \o LibPathOps(libraryPath) \o ExistsOps(target)
                    /\ IF fileOrDirectoryExists(target)
                       THEN /\ Throw(Err("Installation would overwrite existing file in the root of the lib folder",
                                         << fileInLibRoot >>))
                            /\ UNCHANGED fileIdx
                       ELSE /\ fileIdx' = fileIdx + 1
                            /\ UNCHANGED << pc, result, error >>
    /\ UNCHANGED << inputs, wvars, folderIdx, hashOut, bvars >>
    /\ UNCHANGED pvars

DeleteOpsOnLibrary(target) ==
    << GetPrompt, ExecFile("remove_directory.py"), EnterRaw,
       ExecRaw("remove_directory_recursive", SubSeq(target, 1, Len(target) - 1)), ExitRaw >>

\* deletePackageFolder: the board operations it issues
DeleteOps(target) ==
    << GetPrompt, ExecFile("remove_directory.py"), EnterRaw,
       ExecRaw("remove_directory_recursive", target), ExitRaw >>

\* lines 343-352: one iteration of the loop over packageFolders, or its end
CheckPackageFolder ==
    /\ pc = "folders"
    /\ LET packageFolders == getPackageFolders(packageFiles)
       IN  IF folderIdx > Len(packageFolders)
           THEN /\ pc' = "writeFile"
                /\ UNCHANGED << result, error, libraryPath, folderIdx, boardFs, log >>
           ELSE LET packageFolder == packageFolders[folderIdx]
                    libPath == getLibrariesPath(libraryPath)
                    target  == PosixJoin(libPath, packageFolder)
                    checked == log \o LibPathOps(libraryPath) \o ExistsOps(target)
                IN  /\ libraryPath' = libPath
                    /\ IF ~fileOrDirectoryExists(target)
                       THEN /\ log' = checked
                            /\ folderIdx' = folderIdx + 1
                            /\ UNCHANGED << pc, result, error, boardFs >>
                       ELSE IF DeletesExisting(overwriteExisting)
                            THEN \E out \in RemoveDirReplies :
                                   /\ log' = checked \o DeleteOps(target)
                                   /\ IF Includes(extractREPLMessage(out, TRUE), "OSError:")
                                      THEN /\ Throw(Err("Failed to delete existing package folder",
                                                        << packageFolder >>))
                                           /\ UNCHANGED << folderIdx, boardFs >>
                                      ELSE /\ boardFs' = IF out = ReplyEmpty THEN boardFs \ { target }
                                                                            ELSE boardFs
                                           /\ folderIdx' = folderIdx + 1
                                           /\ UNCHANGED << pc, result, error >>
                            ELSE /\ log' = checked
                                 /\ Throw(Err("Installation would overwrite existing package folder",
                                              << packageFolder >>))
                                 /\ UNCHANGED << folderIdx, boardFs >>
    /\ UNCHANGED << inputs, wvars, fileIdx, hashOut, boardD, boardFile, writes, raw, fOpen >>
    /\ UNCHANGED pvars

HashMatchesUnlessZero(out) == extractREPLMessage(out, TRUE) # << "0" >>

\* verifyHash line 157: output === '1'
HashMatches(out) == extractREPLMessage(out, TRUE) = << "1" >>

\* uploadArchive lines 236-239 with verifyHash lines 145-158
VerifyHash ==
    /\ pc = "verify"
    /\ \E loaded \in ScriptLoadReplies :
         IF extractREPLMessage(loaded, TRUE) # <<>>
         THEN /\ log' = log \o << GetPrompt, ExecFile("validate_hash.py") >>
              /\ Throw(Err("Failed to load validate_hash.py", loaded))
              /\ UNCHANGED hashOut
         ELSE \E out \in HashReplies :
                /\ log' = log \o << GetPrompt, ExecFile("validate_hash.py"), EnterRaw,
                                    ExecRaw("validate_hash", << ArchiveName >>), ExitRaw >>
                /\ hashOut' = out
                /\ IF HashMatches(out)
                   THEN /\ pc' = NextStage("verify")
                        /\ UNCHANGED << result, error >>
                   ELSE Throw(Err("Hash mismatch", <<>>))
    /\ UNCHANGED << inputs, wvars, libraryPath, fileIdx, folderIdx, bvars >>
    /\ UNCHANGED pvars

\* the top-level entries the archive creates under the library path
Extracted(libPath) == { PosixJoin(libPath, packageFiles[k][1]) : k \in 1..Len(packageFiles) }

\* extractArchiveOnBoard, lines 246-290
ExtractArchiveOnBoard ==
    /\ pc = "extract"
    /\ \E imported \in ImportReplies, tarLoaded \in ScriptLoadReplies,
          loaded \in ScriptLoadReplies, out \in UntarReplies :
         LET probe == << GetPrompt, EnterRaw, ExecRaw("import tarfile", <<>>), ExitRaw >>
             needsLib == Includes(extractREPLMessage(imported, TRUE), "ImportError")
             loadLib == IF needsLib THEN << ExecFile("tarfile.py") >> ELSE <<>>
             libPath == getLibrariesPath(libraryPath)
             untar == LibPathOps(libraryPath)
                      \o << GetPrompt, EnterRaw, ExecRaw("ensureDirectoryExists", libPath), ExitRaw >>
                      \o << EnterRaw, ExecRaw("untar", libPath), ExitRaw >>
             message == extractREPLMessage(out, TRUE)
         IN  IF needsLib /\ extractREPLMessage(tarLoaded, TRUE) # <<>>
             THEN /\ log' = log \o probe \o loadLib
                  /\ Throw(Err("Failed to load tarfile.py", tarLoaded))
                  /\ UNCHANGED << libraryPath, boardFs, output >>
             ELSE IF extractREPLMessage(loaded, TRUE) # <<>>
             THEN /\ log' = log \o probe \o loadLib \o << ExecFile("extract_archive.py") >>
                  /\ Throw(Err("Failed to import extract_archive.py", loaded))
                  /\ UNCHANGED << libraryPath, boardFs, output >>
             ELSE /\ log' = log \o probe \o loadLib \o << ExecFile("extract_archive.py") >> \o untar
                  /\ libraryPath' = libPath
                  /\ output' = out
                  /\ IF Includes(message, "[Errno 17] EEXIST")
                     THEN /\ Throw(Err("Failed to extract archive because file(s) already exists",
                                       << FailedFolder(message) >>))
                          /\ UNCHANGED boardFs
                     ELSE IF ~Includes(message, "Extraction complete")
                     THEN /\ Throw(Err("Failed to extract archive", message))
                          /\ UNCHANGED boardFs
                     ELSE /\ boardFs' = boardFs \cup Extracted(libPath)
                          /\ pc' = NextStage("extract")
                          /\ UNCHANGED << result, error >>
    /\ UNCHANGED << inputs, wfResult, chunkSize, i, currentProgress, progress, fileIdx, folderIdx,
                    hashOut, boardD, boardFile, writes, raw, fOpen >>
    /\ UNCHANGED pvars

\* the finally block, lines 359-361, with cleanUp lines 369-372
CleanUp ==
    /\ pc = "finally"
    /\ log' = Append(log, FsRm(ArchiveName))
    /\ boardFile' = NoFile
    /\ raw' = FALSE
    /\ IF entry = "packageAndInstall"
       THEN /\ pc' = "finallyOfPackageAndInstall"
            /\ UNCHANGED result
       ELSE /\ pc' = "done"
            /\ result' = IF error = NoError THEN "resolved" ELSE "rejected"
    /\ UNCHANGED << error, inputs, wvars, ivars, boardFs, boardD, writes, fOpen >>
    /\ UNCHANGED pvars

\* ------------------------------------------------------------ Packager
\* the manifests of the model: a name, a version (<<>> if absent), the
\* target paths of the urls entries and the manifests of the deps entries
ManifestD == [name |-> "dep", version |-> <<>>, urls |-> << << "d", "z.py" >> >>,
              deps |-> <<>>]
ManifestA == [name |-> "pkg", version |-> << "1.0.0" >>,
              urls |-> << << "m", "x.py" >>, << "a.py" >> >>, deps |-> <<>>]
ManifestB == [name |-> "", version |-> <<>>,
              urls |-> << << "m", "x.py" >>, << "m", "y.mpy" >> >>,
              deps |-> << ManifestD >>]
ManifestC == [name |-> "", version |-> <<>>, urls |-> << << "m", "x.py" >> >>,
              deps |-> <<>>]

\* what a call is given: the custom manifest, the repository's package.json
\* and the version argument (after version || "HEAD")
PackagingInputs ==
    { << NoManifest, ManifestA, << "HEAD" >> >>,
      << NoManifest, ManifestB, << "v", "2.0.0" >> >>,
      << NoManifest, ManifestB, << "HEAD" >> >>,
      << ManifestA, ManifestB, << "HEAD" >> >>,
      << ManifestC, ManifestA, << "v", "2.0.0" >> >> }

\* the inputs of the calls of packageAndInstall
InstallInputs ==
    { << NoManifest, ManifestA, << "HEAD" >> >>,
      << ManifestC, ManifestA, << "v", "2.0.0" >> >> }

\* the constructor's overwriteExisting and the fourth argument of packageAndInstall
InstallCalls == { << TRUE, "omitted" >>, << TRUE, "false" >>, << FALSE, "omitted" >> }

\* exec of mpy-cross --version failed (binary missing)
CompilerMissing == 0 - 3
\* what getMPyFileFormatFromCompiler yields: an exec error, null, or a number
CompilerFormats == { CompilerMissing, FormatNull, 5, 6 }

OpenOp == Op("open", "", <<>>)
CloseOp == Op("close", "", <<>>)

\* state before Packager.package or Packager.packageAndInstall is called
InitPackager ==
    /\ entry \in { "package", "packageAndInstall" }
    /\ pc = entry
    /\ result = "pending"
    /\ error = NoError
    /\ wfResult = "pending"
    /\ hasPaths = TRUE
    /\ src = Archive
    /\ chunkSize = DefaultChunkSize
    /\ i = 0
    /\ currentProgress = 0
    /\ output = <<>>
    /\ progress = <<>>
    /\ packageFiles = <<>>
    /\ overwriteExisting = TRUE
    /\ libraryPath = Null
    /\ sysLibPath = <<>>
    /\ fileIdx = 1
    /\ folderIdx = 1
    /\ hashOut = <<>>
    /\ boardFs0 \in (IF entry = "packageAndInstall" THEN SUBSET { << "/lib", "m" >> } ELSE { {} })
    /\ boardFs = boardFs0
    /\ boardD = <<>>
    /\ boardFile = NoFile
    /\ writes = <<>>
    /\ raw = FALSE
    /\ fOpen = FALSE
    /\ log = <<>>
    /\ inFlight = 0
    /\ portVersion = <<>>
    /\ ReplyIdle
    /\ compileFiles \in BOOLEAN
    /\ \E call \in (IF entry = "packageAndInstall" THEN InstallCalls ELSE { << TRUE, "omitted" >> }) :
         /\ ctorOverwrite = call[1]
         /\ fourthArg = call[2]
    /\ closePort \in (IF entry = "package" THEN BOOLEAN ELSE { TRUE })
    /\ \E given \in (IF entry = "package" THEN PackagingInputs ELSE InstallInputs) :
         /\ customPackageJson = given[1]
         /\ repoPackageJson = given[2]
         /\ version = given[3]
    /\ compilerFormat \in (IF entry = "package" THEN CompilerFormats ELSE { 6 })
    /\ canOpen \in BOOLEAN
    /\ sessionOpen \in (IF canOpen THEN BOOLEAN ELSE { FALSE })
    /\ closedBy = "none"
    /\ mpyFormat = FormatNull
    /\ hook = FALSE
    /\ fetched = FALSE
    /\ packageJson = NoManifest
    /\ staging = "none"
    /\ staged = {}
    /\ downloads = <<>>
    /\ archiveFile = "none"
    /\ archiveName = <<>>
    /\ archived = {}
    /\ archiveResult = <<>>
    /\ tarFilePath = FALSE
    /\ compileErrors = {}
    /\ UrlIdle

\* package lines 116-117: the catch block rethrows wrapped, the finally block follows
ThrowInPackage(e) ==
    /\ pc' = "finallyOfPackage"
    /\ error' = Wrap(e)

\* packageAndInstall lines 137-145: open the session if it is not open, call
\* package with closePort = false
PackageAndInstallBegin ==
    /\ pc = "packageAndInstall"
    /\ IF sessionOpen
       THEN /\ pc' = "package"
            /\ closePort' = FALSE
            /\ UNCHANGED << result, error, sessionOpen, log >>
       ELSE IF canOpen
            THEN /\ sessionOpen' = TRUE
                 /\ log' = Append(log, OpenOp)
                 /\ pc' = "package"
                 /\ closePort' = FALSE
                 /\ UNCHANGED << result, error >>
            ELSE /\ log' = Append(log, OpenOp)
                 /\ pc' = "done"
                 /\ result' = "rejected"
                 /\ error' = Err("Failed to open port", <<>>)
                 /\ UNCHANGED << sessionOpen, closePort >>
    /\ UNCHANGED << inputs, wvars, ivars, bvars, pinputs, uvars, inFlight, portVersion, rvars, compileErrors, closedBy, mpyFormat, hook, fetched,
                    packageJson, staging, staged, downloads, archiveFile, archiveName,
                    archived, archiveResult, tarFilePath >>

\* parseInt(output) for the outputs of the model
ParseInt(message) ==
    CASE message = << "6" >> -> 6
      [] message = << "5" >> -> 5
      [] message = << "0" >> -> 0
      [] OTHER -> FormatNaN

\* replies of the board to "print(getattr(sys.implementation, '_mpy', 0) & 0xFF)"
MpyFormatReplies == { Printed("6"), Printed("0"), ReplyTraceback }

\* the board operations of getArchitectureFromBoard and getMPyFileFormatFromBoard
QueryOps ==
    << GetPrompt, EnterRaw, ExecRaw("platform.platform", <<>>), ExitRaw,
       GetPrompt, EnterRaw, ExecRaw("sys.implementation._mpy", <<>>), ExitRaw >>

\* package line 102: if(!this.board.serial?.isOpen)
OpensSession(isOpen) == ~isOpen

\* package lines 95-112: open the session if it is not open, query the
\* architecture and the mpy format of the board when compiling
PackageBegin ==
    /\ pc = "package"
    /\ IF OpensSession(sessionOpen) /\ ~canOpen
       THEN /\ log' = Append(log, OpenOp)
            /\ ThrowInPackage(Err("Failed to open port", <<>>))
            /\ UNCHANGED << sessionOpen, mpyFormat >>
       ELSE \E reply \in MpyFormatReplies :
              /\ sessionOpen' = (sessionOpen \/ OpensSession(sessionOpen))
              /\ log' = log \o (IF OpensSession(sessionOpen) THEN << OpenOp >> ELSE <<>>)
                            \o (IF compileFiles THEN QueryOps ELSE <<>>)
              /\ mpyFormat' = IF compileFiles
                              THEN ParseInt(extractREPLMessage(reply, TRUE))
                              ELSE FormatNull
              /\ pc' = "packageForArchitectureAndFormat"
              /\ UNCHANGED error
    /\ UNCHANGED << result, inputs, wvars, ivars, bvars, pinputs, uvars, inFlight, portVersion, rvars, compileErrors, closePort, closedBy, hook,
                    fetched, packageJson, staging, staged, downloads, archiveFile, archiveName,
                    archived, archiveResult, tarFilePath >>

\* a value is truthy unless it is null, NaN or 0
Truthy(format) == format \notin { FormatNull, FormatNaN, 0 }

\* a == b for null, NaN and numbers
LooseEquals(a, b) == a # FormatNaN /\ b # FormatNaN /\ a = b

\* supportsMpyFileFormat: false when the compiler's format cannot be determined
supportsMpyFileFormat(mpyFileFormat) ==
    IF compilerFormat = CompilerMissing
    THEN FALSE
    ELSE LooseEquals(compilerFormat, mpyFileFormat)

HookIsSetWithoutFormat(format) == supportsMpyFileFormat(format)

\* packageForArchitectureAndFormat line 59
HookIsSet(format) == Truthy(format) /\ supportsMpyFileFormat(format)

\* packageForArchitectureAndFormat lines 54-73 and archiveRepository lines
\* 241-248: decide on the hook, create the staging directory
PackageForArchitectureAndFormat ==
    /\ pc = "packageForArchitectureAndFormat"
    /\ hook' = HookIsSet(mpyFormat)
    /\ staging' = "exists"
    /\ pc' = "downloadFilesFromRepository"
    /\ UNCHANGED << result, error, inputs, wvars, ivars, bvars, log, pinputs, uvars, inFlight, portVersion, rvars, compileErrors, closePort,
                    sessionOpen, closedBy, mpyFormat, fetched, packageJson, staged, downloads,
                    archiveFile, archiveName, archived, archiveResult, tarFilePath >>

IgnoresCustomManifest(custom) == FALSE

\* downloadFilesFromRepository line 213: if (customPackageJson)
UsesCustomManifest(custom) == custom # NoManifest

\* downloadFilesFromRepository lines 209-226: take the custom manifest or
\* fetch package.json, then start one downloadFile per urls entry; the block
\* of if (packageJson.deps) holds comments only, so deps start nothing
DownloadFilesFromRepository ==
    /\ pc = "downloadFilesFromRepository"
    /\ IF UsesCustomManifest(customPackageJson)
       THEN /\ packageJson' = customPackageJson
            /\ downloads' = [k \in 1..Len(customPackageJson.urls) |-> "started"]
            /\ pc' = "awaitDownloads"
            /\ UNCHANGED << fetched, error >>
       ELSE \E ok \in BOOLEAN :
              /\ fetched' = TRUE
              /\ IF ok
                 THEN /\ packageJson' = repoPackageJson
                      /\ downloads' = [k \in 1..Len(repoPackageJson.urls) |-> "started"]
                      /\ pc' = "awaitDownloads"
                      /\ UNCHANGED error
                 ELSE /\ ThrowInPackage(Err("Failed to fetch package.json", <<>>))
                      /\ UNCHANGED << packageJson, downloads >>
    /\ UNCHANGED << result, inputs, wvars, ivars, bvars, log, pinputs, uvars, inFlight, portVersion, rvars, compileErrors, closePort, sessionOpen,
                    closedBy, mpyFormat, hook, staging, staged, archiveFile, archiveName,
                    archived, archiveResult, tarFilePath >>

\* filePath.endsWith('.mpy') for the file names of the model
EndsWithMpy(filePath) == filePath[Len(filePath)] \in { "y.mpy", "x.mpy", "a.mpy" }

\* `${filePath.slice(0, -3)}.mpy` for the file names of the model
CompiledPath(filePath) ==
    LET name == filePath[Len(filePath)]
        compiled == CASE name = "x.py" -> "x.mpy"
                      [] name = "a.py" -> "a.mpy"
                      [] name = "y.mpy" -> "y.mpy"
                      [] OTHER -> "undefined"
    IN  SubSeq(filePath, 1, Len(filePath) - 1) \o << compiled >>

HookRethrows(filePath, compiles) ==
    IF EndsWithMpy(filePath) THEN [path |-> filePath, threw |-> FALSE, logged |-> FALSE]
    ELSE IF compiles THEN [path |-> CompiledPath(filePath), threw |-> FALSE, logged |-> FALSE]
    ELSE [path |-> filePath, threw |-> TRUE, logged |-> TRUE]

\* downloadedFileCallback, packager.js lines 60-70, with compileFile: the path
\* it returns, whether it threw, and whether it reported a failed compilation
DownloadedFileCallback(filePath, compiles) ==
    IF EndsWithMpy(filePath) THEN [path |-> filePath, threw |-> FALSE, logged |-> FALSE]
    ELSE IF compiles THEN [path |-> CompiledPath(filePath), threw |-> FALSE, logged |-> FALSE]
    ELSE [path |-> filePath, threw |-> FALSE, logged |-> TRUE]

\* downloadFile lines 126-140: fetch the file and write it to the staging directory
DownloadFile(k) ==
    /\ downloads[k] = "started"
    /\ \E ok \in BOOLEAN :
         IF ok
         THEN /\ staged' = staged \cup { packageJson.urls[k] }
              /\ downloads' = [downloads EXCEPT ![k] = IF hook THEN "written" ELSE "done"]
         ELSE /\ downloads' = [downloads EXCEPT ![k] = "failed"]
              /\ UNCHANGED staged
    /\ UNCHANGED << pc, result, error, inputs, wvars, ivars, bvars, log, pinputs, uvars, inFlight, portVersion, rvars, compileErrors, closePort,
                    sessionOpen, closedBy, mpyFormat, hook, fetched, packageJson, staging,
                    archiveFile, archiveName, archived, archiveResult, tarFilePath >>

\* downloadFile lines 140-147: the hook runs, the original is removed when the
\* hook returned another path
ProcessFile(k) ==
    /\ downloads[k] = "written"
    /\ \E compiles \in BOOLEAN :
         LET filePath == packageJson.urls[k]
             outcome == DownloadedFileCallback(filePath, compiles)
         IN  /\ compileErrors' = IF outcome.logged THEN compileErrors \cup { filePath }
                                 ELSE compileErrors
             /\ IF outcome.threw
                THEN /\ downloads' = [downloads EXCEPT ![k] = "failed"]
                     /\ UNCHANGED staged
                ELSE /\ downloads' = [downloads EXCEPT ![k] = "done"]
                     /\ staged' = IF outcome.path # filePath
                                  THEN (staged \ { filePath }) \cup { outcome.path }
                                  ELSE staged
    /\ UNCHANGED << pc, result, error, inputs, wvars, ivars, bvars, log, pinputs, uvars, inFlight, portVersion, rvars, closePort,
                    sessionOpen, closedBy, mpyFormat, hook, fetched, packageJson, staging,
                    archiveFile, archiveName, archived, archiveResult, tarFilePath >>

PromiseRace(promises) ==
    IF \E k \in DOMAIN promises : promises[k] = "failed" THEN "rejected"
    ELSE IF \E k \in DOMAIN promises : promises[k] = "done" THEN "resolved"
    ELSE IF promises = <<>> THEN "resolved"
    ELSE "pending"

\* Promise.all: rejected as soon as one promise is, resolved once all are
PromiseAll(promises) ==
    IF \E k \in DOMAIN promises : promises[k] = "failed" THEN "rejected"
    ELSE IF \A k \in DOMAIN promises : promises[k] = "done" THEN "resolved"
    ELSE "pending"

\* this.version?.replace(/^v/, '')
StripV(v) == IF v # <<>> /\ v[1] = "v" THEN Tail(v) ELSE v

\* packageVersion || (repoVersion === "HEAD" ? 'latest' : repoVersion)
VersionForTarFile(packageVersion, repoVersion) ==
    IF packageVersion # <<>> THEN packageVersion
    ELSE IF repoVersion = << "HEAD" >> THEN << "latest" >> ELSE repoVersion

\* downloadFilesFromRepository line 220 and archiveRepository lines 250-267:
\* the downloads are awaited, the archive is named and its creation starts
AwaitDownloads ==
    /\ pc = "awaitDownloads"
    /\ PromiseAll(downloads) # "pending"
    /\ IF PromiseAll(downloads) = "rejected"
       THEN /\ ThrowInPackage(Err("Failed to download file", <<>>))
            /\ UNCHANGED << archiveFile, archiveName >>
       ELSE /\ archiveName' = VersionForTarFile(packageJson.version, StripV(version))
            /\ archiveFile' = "writing"
            /\ pc' = "createTarGzArchive"
            /\ UNCHANGED error
    /\ UNCHANGED << result, inputs, wvars, ivars, bvars, log, pinputs, uvars, inFlight, portVersion, rvars, compileErrors, closePort, sessionOpen,
                    closedBy, mpyFormat, hook, fetched, packageJson, staging, staged, downloads,
                    archived, archiveResult, tarFilePath >>

\* the packageFiles of the ArchiveResult: the target paths of the manifest's urls
ResultPackageFiles(manifest) == manifest.urls

\* archiveRepository lines 267-271: the archive is written from the staging
\* directory, the staging directory is removed, the result is returned
CreateTarGzArchive ==
    /\ pc = "createTarGzArchive"
    /\ \E outcome \in { "ok", "tar failed", "remove failed" } :
         /\ archived' = staged
         /\ IF outcome = "tar failed"
            THEN /\ archiveFile' = "partial"
                 /\ ThrowInPackage(Err("Failed to create archive", <<>>))
                 /\ UNCHANGED << staging, archiveResult >>
            ELSE IF outcome = "remove failed"
            THEN /\ archiveFile' = "written"
                 /\ ThrowInPackage(Err("Failed to remove directory", <<>>))
                 /\ UNCHANGED << staging, archiveResult >>
            ELSE /\ archiveFile' = "written"
                 /\ staging' = "removed"
                 /\ archiveResult' = ResultPackageFiles(packageJson)
                 /\ pc' = "finallyOfPackage"
                 /\ UNCHANGED error
    /\ UNCHANGED << result, inputs, wvars, ivars, bvars, log, pinputs, uvars, inFlight, portVersion, rvars, compileErrors, closePort, sessionOpen,
                    closedBy, mpyFormat, hook, fetched, packageJson, staged, downloads,
                    archiveName, tarFilePath >>

\* package lines 118-122: close the session if closePort, then return or rethrow
FinallyOfPackage ==
    /\ pc = "finallyOfPackage"
    /\ IF closePort
       THEN /\ log' = Append(log, CloseOp)
            /\ sessionOpen' = FALSE
            /\ closedBy' = IF sessionOpen THEN "package" ELSE closedBy
       ELSE UNCHANGED << log, sessionOpen, closedBy >>
    /\ IF entry = "package"
       THEN /\ pc' = "done"
            /\ result' = IF error = NoError THEN "resolved" ELSE "rejected"
       ELSE /\ pc' = IF error = NoError THEN "callInstallPackage" ELSE "finallyOfPackageAndInstall"
            /\ UNCHANGED result
    /\ UNCHANGED << error, inputs, wvars, ivars, bvars, pinputs, uvars, inFlight, portVersion, rvars, compileErrors, closePort, mpyFormat, hook,
                    fetched, packageJson, staging, staged, downloads, archiveFile, archiveName,
                    archived, archiveResult, tarFilePath >>

\* packageAndInstall line 149: the overwriteExisting argument of installPackage
OverwriteArgument(configured, fourth) == configured

\* packageAndInstall lines 146-149: installPackage is called
CallInstallPackage ==
    /\ pc = "callInstallPackage"
    /\ tarFilePath' = TRUE
    /\ packageFiles' = archiveResult
    /\ overwriteExisting' = OverwriteArgument(ctorOverwrite, fourthArg)
    /\ pc' = "installPackage"
    /\ UNCHANGED << result, error, entry, src, hasPaths, boardFs0, sysLibPath, wvars, ivars,
                    bvars, log, pinputs, uvars, inFlight, portVersion, rvars, compileErrors, closePort, sessionOpen, closedBy, mpyFormat, hook,
                    fetched, packageJson, staging, staged, downloads, archiveFile, archiveName,
                    archived, archiveResult >>

\* packageAndInstall lines 154-160: remove the local archive if its path is
\* known, then close the session
FinallyOfPackageAndInstall ==
    /\ pc = "finallyOfPackageAndInstall"
    /\ \E removed \in (IF tarFilePath THEN BOOLEAN ELSE { TRUE }) :
         IF ~removed
         THEN /\ error' = Err("Failed to remove archive", <<>>)
              /\ UNCHANGED << archiveFile, sessionOpen, closedBy, log >>
         ELSE /\ archiveFile' = IF tarFilePath THEN "removed" ELSE archiveFile
              /\ log' = Append(log, CloseOp)
              /\ sessionOpen' = FALSE
              /\ closedBy' = "packageAndInstall"
              /\ UNCHANGED error
    /\ pc' = "done"
    /\ result' = IF error' = NoError THEN "resolved" ELSE "rejected"
    /\ UNCHANGED << inputs, wvars, ivars, bvars, pinputs, uvars, inFlight, portVersion, rvars, compileErrors, closePort, mpyFormat, hook, fetched,
                    packageJson, staging, staged, downloads, archiveName, archived,
                    archiveResult, tarFilePath >>

\* the downloads run concurrently: any of them takes its next step
DownloadOneFile == \E k \in DOMAIN downloads : DownloadFile(k)
ProcessOneFile == \E k \in DOMAIN downloads : ProcessFile(k)

NextPackager ==
    \/ PackageAndInstallBegin
    \/ PackageBegin
    \/ PackageForArchitectureAndFormat
    \/ DownloadFilesFromRepository
    \/ DownloadOneFile
    \/ ProcessOneFile
    \/ AwaitDownloads
    \/ CreateTarGzArchive
    \/ FinallyOfPackage
    \/ CallInstallPackage
    \/ InstallPackageBegin
    \/ CheckRootFile
    \/ CheckPackageFolder
    \/ WriteFileBegin
    \/ WriteChunk
    \/ WriteFileEnd
    \/ VerifyHash
    \/ ExtractArchiveOnBoard
    \/ CleanUp
    \/ FinallyOfPackageAndInstall

SpecPackager == InitPackager /\ [][NextPackager]_vars

\* ------------------------------------------------------------ URLs
MaxParts == 3

UrlHosts == { "github:", "gitlab:", "https://github.com/", "https://gitlab.com/",
              "https://raw.githubusercontent.com/", "https://example.org/" }

\* path segments: "o", "r.git", "x.github" and "s.py"
UrlSegments == { << "o" >>, << "r", ".git" >>, << "x", ".git", "hub" >>, << "s.py" >> }

\* the urls of the model: String.split('/') yields at least one segment
Urls == { [host |-> h, parts |-> p] :
            h \in UrlHosts, p \in SeqsUpTo(UrlSegments, MaxParts) \ { <<>> } }

\* the refs of the model: HEAD and v2.0.0
Refs == { << "HEAD" >>, << "v", "2.0.0" >> }

\* `${undefined}` in a template string
Undefined == << "undefined" >>
\* throw new Error('Not implemented yet')
NotImplemented == [host |-> "Error: Not implemented yet", parts |-> <<>>]

\* [].join('/') is the empty string: one empty segment
JoinedPath(rest) == IF rest = <<>> THEN << <<>> >> ELSE rest

\* the rewriter of the earlier revision: no folding of https urls, other urls
\* returned unchanged
rewriteUrl(url, branch) ==
    LET owner == url.parts[1]
        repoName == IF Len(url.parts) >= 2 THEN url.parts[2] ELSE Undefined
        path == JoinedPath(SubSeq(url.parts, 3, Len(url.parts)))
    IN  IF url.host = "github:"
        THEN [host |-> "https://raw.githubusercontent.com/",
              parts |-> << owner, repoName, branch >> \o path]
        ELSE IF url.host = "gitlab:"
        THEN [host |-> "https://gitlab.com/",
              parts |-> << owner, repoName, << "-" >>, << "raw" >>, branch >> \o path]
        ELSE url

\* getRawFileURL, repository-archiver.js lines 66-94
getRawFileURL(url, branch) ==
    LET short == IF url.host = "https://github.com/" THEN [url EXCEPT !.host = "github:"]
                 ELSE IF url.host = "https://gitlab.com/" THEN [url EXCEPT !.host = "gitlab:"]
                 ELSE url
        owner == short.parts[1]
        repoName == IF Len(short.parts) >= 2 THEN short.parts[2] ELSE Undefined
        path == JoinedPath(SubSeq(short.parts, 3, Len(short.parts)))
    IN  IF short.host \notin { "github:", "gitlab:" }
        THEN NotImplemented
        ELSE IF short.host = "github:"
        THEN [host |-> "https://raw.githubusercontent.com/",
              parts |-> << owner, repoName, branch >> \o path]
        ELSE [host |-> "https://gitlab.com/",
              parts |-> << owner, repoName, << "-" >>, << "raw" >>, branch >> \o path]

\* String.replace('.git', ''): the first occurrence is removed
RECURSIVE ReplaceDotGit(_)
ReplaceDotGit(segment) ==
    IF segment = <<>> THEN <<>>
    ELSE IF Head(segment) = ".git" THEN Tail(segment)
    ELSE << Head(segment) >> \o ReplaceDotGit(Tail(segment))

\* getRepoName, lines 174-176: this.repoUrl.split('/').slice(-1)[0].replace('.git', '')
getRepoName(url) ==
    LET last == IF Len(url.parts) = 1 /\ url.host \in { "github:", "gitlab:" }
                THEN << url.host >> \o url.parts[1]
                ELSE url.parts[Len(url.parts)]
    IN  ReplaceDotGit(last)

\* state before getRawFileURL is called on a url, or before archiveRepository
\* names the archive of a repository
InitUrl ==
    /\ entry \in { "getRawFileURL", "archiveRepository" }
    /\ pc = (IF entry = "getRawFileURL" THEN "getRawFileURL" ELSE "tarGzFileName")
    /\ result = "pending"
    /\ error = NoError
    /\ wfResult = "pending"
    /\ hasPaths = TRUE
    /\ src = Archive
    /\ chunkSize = DefaultChunkSize
    /\ i = 0
    /\ currentProgress = 0
    /\ output = <<>>
    /\ progress = <<>>
    /\ packageFiles = <<>>
    /\ overwriteExisting = TRUE
    /\ libraryPath = Null
    /\ sysLibPath = <<>>
    /\ fileIdx = 1
    /\ folderIdx = 1
    /\ hashOut = <<>>
    /\ boardFs0 = {}
    /\ boardFs = {}
    /\ boardD = <<>>
    /\ boardFile = NoFile
    /\ writes = <<>>
    /\ raw = FALSE
    /\ fOpen = FALSE
    /\ log = <<>>
    /\ inFlight = 0
    /\ portVersion = <<>>
    /\ ReplyIdle
    /\ compileFiles = FALSE
    /\ ctorOverwrite = TRUE
    /\ fourthArg = "omitted"
    /\ closePort = TRUE
    /\ customPackageJson = NoManifest
    /\ repoPackageJson \in (IF entry = "archiveRepository" THEN { ManifestA, ManifestC }
                                                          ELSE { NoManifest })
    /\ version \in Refs
    /\ compilerFormat = FormatNull
    /\ canOpen = TRUE
    /\ sessionOpen = FALSE
    /\ closedBy = "none"
    /\ mpyFormat = FormatNull
    /\ hook = FALSE
    /\ fetched = FALSE
    /\ packageJson = repoPackageJson
    /\ staging = "none"
    /\ staged = {}
    /\ downloads = <<>>
    /\ archiveFile = "none"
    /\ archiveName = <<>>
    /\ archived = {}
    /\ archiveResult = <<>>
    /\ tarFilePath = FALSE
    /\ compileErrors = {}
    /\ repoUrl \in Urls
    /\ rawFileURL = NoUrl
    /\ rewrittenAgain = NoUrl
    /\ tarGzFileName = <<>>

\* getRawFileURL(url, branch) is called
GetRawFileURL ==
    /\ pc = "getRawFileURL"
    /\ rawFileURL' = getRawFileURL(repoUrl, version)
    /\ pc' = "getRawFileURLAgain"
    /\ UNCHANGED << result, error, inputs, wvars, ivars, bvars, log, inFlight, portVersion, rvars, pinputs, pstate, repoUrl,
                    rewrittenAgain, tarGzFileName >>

\* getRawFileURL is called on the url it returned; nothing to call it on when it threw
GetRawFileURLAgain ==
    /\ pc = "getRawFileURLAgain"
    /\ rewrittenAgain' = IF rawFileURL = NotImplemented THEN NotImplemented
                         ELSE getRawFileURL(rawFileURL, version)
    /\ pc' = "done"
    /\ result' = IF rewrittenAgain' = NotImplemented THEN "rejected" ELSE "resolved"
    /\ UNCHANGED << error, inputs, wvars, ivars, bvars, log, inFlight, portVersion, rvars, pinputs, pstate, repoUrl,
                    rawFileURL, tarGzFileName >>

\* archiveRepository lines 252-261: packageName, versionForTarFile, tarGzFileName
TarGzFileName ==
    /\ pc = "tarGzFileName"
    /\ LET packageName == IF packageJson.name # "" THEN << packageJson.name >>
                          ELSE getRepoName(repoUrl)
           versionForTarFile == VersionForTarFile(packageJson.version, StripV(version))
       IN  tarGzFileName' = packageName \o << "-" >> \o versionForTarFile \o << ".tar.gz" >>
    /\ pc' = "done"
    /\ result' = "resolved"
    /\ UNCHANGED << error, inputs, wvars, ivars, bvars, log, inFlight, portVersion, rvars, pinputs, pstate, repoUrl,
                    rawFileURL, rewrittenAgain >>

NextUrl ==
    \/ GetRawFileURL
    \/ GetRawFileURLAgain
    \/ TarGzFileName

SpecUrl == InitUrl /\ [][NextUrl]_vars

\* ------------------------------------------- getMicroPythonVersionFromPort
\* replies of the board to "import os; print(os.uname().release)"
VersionReplies ==
    { Printed("1.21.0"),
      Reply(<< "1.22.0", "-", "preview", "CR", "LF" >>, <<>>),
      ReplyTraceback }

\* version.split("-")[0]
RECURSIVE BeforeFirstDash(_)
BeforeFirstDash(message) ==
    IF message = <<>> \/ Head(message) = "-"
    THEN <<>>
    ELSE << Head(message) >> \o BeforeFirstDash(Tail(message))

\* the state before getMicroPythonVersionFromPort is called: no session is open
InitPort ==
    /\ entry = "getMicroPythonVersionFromPort"
    /\ pc = entry
    /\ result = "pending"
    /\ error = NoError
    /\ wfResult = "pending"
    /\ hasPaths = TRUE
    /\ src = Archive
    /\ chunkSize = DefaultChunkSize
    /\ i = 0
    /\ currentProgress = 0
    /\ output = <<>>
    /\ progress = <<>>
    /\ packageFiles = <<>>
    /\ overwriteExisting = TRUE
    /\ libraryPath = Null
    /\ sysLibPath = <<>>
    /\ fileIdx = 1
    /\ folderIdx = 1
    /\ hashOut = <<>>
    /\ boardFs0 = {}
    /\ boardFs = {}
    /\ boardD = <<>>
    /\ boardFile = NoFile
    /\ writes = <<>>
    /\ raw = FALSE
    /\ fOpen = FALSE
    /\ log = <<>>
    /\ inFlight = 0
    /\ portVersion = <<>>
    /\ ReplyIdle
    /\ compileFiles = FALSE
    /\ ctorOverwrite = TRUE
    /\ fourthArg = "omitted"
    /\ closePort = TRUE
    /\ customPackageJson = NoManifest
    /\ repoPackageJson = NoManifest
    /\ version = << "HEAD" >>
    /\ compilerFormat = FormatNull
    /\ canOpen = TRUE
    /\ sessionOpen = FALSE
    /\ closedBy = "none"
    /\ mpyFormat = FormatNull
    /\ hook = FALSE
    /\ fetched = FALSE
    /\ packageJson = NoManifest
    /\ staging = "none"
    /\ staged = {}
    /\ downloads = <<>>
    /\ archiveFile = "none"
    /\ archiveName = <<>>
    /\ archived = {}
    /\ archiveResult = <<>>
    /\ tarFilePath = FALSE
    /\ compileErrors = {}
    /\ repoUrl = NoUrl
    /\ rawFileURL = NoUrl
    /\ rewrittenAgain = NoUrl
    /\ tarGzFileName = <<>>

\* board-helpers.js lines 56-57: a board is made and its port is opened
PortOpen ==
    /\ pc = "getMicroPythonVersionFromPort"
    /\ log' = Append(log, OpenOp)
    /\ \E opened \in BOOLEAN :
         IF opened
         THEN /\ sessionOpen' = TRUE
              /\ pc' = "getMicroPythonVersionFromBoard"
              /\ UNCHANGED << result, error >>
         ELSE /\ pc' = "done"
              /\ result' = "rejected"
              /\ error' = Err("open", <<>>)
              /\ UNCHANGED sessionOpen
    /\ UNCHANGED << inputs, wvars, ivars, bvars, pinputs, uvars, inFlight, portVersion, rvars,
                    compileErrors, closePort, closedBy, mpyFormat, hook, fetched, packageJson,
                    staging, staged, downloads, archiveFile, archiveName, archived,
                    archiveResult, tarFilePath >>

\* board-helpers.js line 58 with getMicroPythonVersionFromBoard lines 40-47
VersionFromBoard ==
    /\ pc = "getMicroPythonVersionFromBoard"
    /\ \E out \in VersionReplies :
         /\ log' = log \o << GetPrompt, EnterRaw, ExecRaw("os.uname", <<>>), ExitRaw >>
         /\ portVersion' = BeforeFirstDash(extractREPLMessage(out, TRUE))
    /\ pc' = "closePort"
    /\ UNCHANGED << result, error, inputs, wvars, ivars, bvars, pinputs, pstate, uvars, inFlight, rvars >>

\* board-helpers.js lines 59-60: the port is closed and the version returned
PortClose ==
    /\ pc = "closePort"
    /\ log' = Append(log, CloseOp)
    /\ sessionOpen' = FALSE
    /\ closedBy' = "getMicroPythonVersionFromPort"
    /\ pc' = "done"
    /\ result' = "resolved"
    /\ UNCHANGED << error, inputs, wvars, ivars, bvars, pinputs, uvars, inFlight, portVersion, rvars,
                    compileErrors, closePort, mpyFormat, hook, fetched, packageJson,
                    staging, staged, downloads, archiveFile, archiveName, archived,
                    archiveResult, tarFilePath >>

NextPort ==
    \/ PortOpen
    \/ VersionFromBoard
    \/ PortClose

\* ------------------------------------------------------- raw replies
\* what a raw reply begins with: OK, or something else when the exchange
\* with the board went wrong
ReplyPrefixes == { << "O", "K" >>, << "X", "X" >>, << "O" >> }

\* what the statement wrote to stdout and to stderr
ReplyStdouts ==
    { <<>>, << "1" >>, << "1", "CR", "LF" >>, << "0", "CR", "LF" >>, << "/lib", "CR", "LF" >>,
      << "CR", "LF" >> }
ReplyStderrs == { <<>>, << "T" >>, << "T", "b" >>, << "Traceback", "CR", "LF" >> }

\* the raw reply: prefix, stdout, 0x04, stderr, 0x04, '>'
RawReply(parts) == parts.prefix \o Tail(Tail(Reply(parts.stdout, parts.stderr)))

\* fileOrDirectoryExists line 153: output[2] == '1'
ExistenceResult(out) == out[3] = "1"

\* the state before a helper reads a raw reply
InitReply ==
    /\ entry = "extractREPLMessage"
    /\ pc = entry
    /\ result = "pending"
    /\ error = NoError
    /\ wfResult = "pending"
    /\ hasPaths = TRUE
    /\ src = Archive
    /\ chunkSize = DefaultChunkSize
    /\ i = 0
    /\ currentProgress = 0
    /\ output = <<>>
    /\ progress = <<>>
    /\ packageFiles = <<>>
    /\ overwriteExisting = TRUE
    /\ libraryPath = Null
    /\ sysLibPath = <<>>
    /\ fileIdx = 1
    /\ folderIdx = 1
    /\ hashOut = <<>>
    /\ boardFs0 = {}
    /\ boardFs = {}
    /\ boardD = <<>>
    /\ boardFile = NoFile
    /\ writes = <<>>
    /\ raw = FALSE
    /\ fOpen = FALSE
    /\ log = <<>>
    /\ inFlight = 0
    /\ portVersion = <<>>
    /\ replyParts \in [prefix : ReplyPrefixes, stdout : ReplyStdouts, stderr : ReplyStderrs,
                     strip : BOOLEAN]
    /\ replyResult = NoReplyResult
    /\ compileFiles = FALSE
    /\ ctorOverwrite = TRUE
    /\ fourthArg = "omitted"
    /\ closePort = TRUE
    /\ customPackageJson = NoManifest
    /\ repoPackageJson = NoManifest
    /\ version = << "HEAD" >>
    /\ compilerFormat = FormatNull
    /\ canOpen = TRUE
    /\ sessionOpen = FALSE
    /\ closedBy = "none"
    /\ mpyFormat = FormatNull
    /\ hook = FALSE
    /\ fetched = FALSE
    /\ packageJson = NoManifest
    /\ staging = "none"
    /\ staged = {}
    /\ downloads = <<>>
    /\ archiveFile = "none"
    /\ archiveName = <<>>
    /\ archived = {}
    /\ archiveResult = <<>>
    /\ tarFilePath = FALSE
    /\ compileErrors = {}
    /\ repoUrl = NoUrl
    /\ rawFileURL = NoUrl
    /\ rewrittenAgain = NoUrl
    /\ tarGzFileName = <<>>

\* a raw reply is read by extractREPLMessage lines 124-134, by
\* fileOrDirectoryExists line 153, by writeFile line 231 and by verifyHash
\* lines 155-157; none of them throws
ReadReply ==
    /\ pc = "extractREPLMessage"
    /\ LET out == RawReply(replyParts)
       IN  replyResult' = [message |-> extractREPLMessage(out, replyParts.strip),
                           exists |-> ExistenceResult(out),
                           crcCorrect |-> CrcCorrect(out),
                           hashMatches |-> HashMatches(out)]
    /\ pc' = "done"
    /\ result' = "resolved"
    /\ UNCHANGED << error, inputs, wvars, ivars, bvars, log, pinputs, pstate, uvars, inFlight,
                    portVersion, replyParts >>

NextReply == ReadReply

SpecReply == InitReply /\ [][NextReply]_vars

Next ==
    \/ WriteFileBegin
    \/ WriteChunk
    \/ WriteFileEnd
    \/ InstallPackageBegin
    \/ CheckRootFile
    \/ CheckPackageFolder
    \/ VerifyHash
    \/ ExtractArchiveOnBoard
    \/ CleanUp

Spec == Init /\ [][Next]_vars

\* every board operation returns and every await is resumed: a call that can
\* take a step takes one
SpecLive == Spec /\ WF_vars(Next)

\* ------------------------------------------------- a board that may not answer
PromptTimedOut == "Timeout waiting for REPL"
RemovalFailed == "fs_rm"

\* one prompt wait of a step: the operations the step issues before it, the
\* library path the installer has cached by then and the helper that waits
Wait(before, path, helper) == [before |-> before, path |-> path, helper |-> helper]

\* the prompt waits of getLibrariesPath and of the fileOrDirectoryExists that
\* follows it in packageExists lines 186-187
ExistsWaits ==
    (IF libraryPath = Null THEN { Wait(<<>>, Null, "getLibrariesSystemPath") } ELSE {})
    \cup { Wait(LibPathOps(libraryPath), getLibrariesPath(libraryPath), "fileOrDirectoryExists") }

\* the getPromptWithTimeout calls of the step at pc
PromptWaits ==
    CASE pc = "writeFile" -> { Wait(<<>>, libraryPath, "writeFile") }
      [] pc = "verify" -> { Wait(<<>>, libraryPath, "verifyHash") }
      [] pc = "rootFiles" /\ fileIdx <= Len(FilesInLibRoot(packageFiles)) -> ExistsWaits
      [] pc = "folders" /\ folderIdx <= Len(getPackageFolders(packageFiles)) ->
            LET libPath == getLibrariesPath(libraryPath)
                target == PosixJoin(libPath, getPackageFolders(packageFiles)[folderIdx])
            IN  ExistsWaits \cup
                (IF fileOrDirectoryExists(target) /\ DeletesExisting(overwriteExisting)
                 THEN { Wait(LibPathOps(libraryPath) \o ExistsOps(target), libPath,
                             "deletePackageFolder") }
                 ELSE {})
      [] pc = "extract" ->
            { Wait(<<>>, libraryPath, "extractArchiveOnBoard") } \cup
            UNION { LET probe == << GetPrompt, EnterRaw, ExecRaw("import tarfile", <<>>), ExitRaw >>
                        needsLib == Includes(extractREPLMessage(imported, TRUE), "ImportError")
                        loadLib == IF needsLib THEN << ExecFile("tarfile.py") >> ELSE <<>>
                        loaded == probe \o loadLib \o << ExecFile("extract_archive.py") >>
                    IN  (IF libraryPath = Null
                         THEN { Wait(loaded, Null, "getLibrariesSystemPath") }
                         ELSE {})
                        \cup { Wait(loaded \o LibPathOps(libraryPath),
                                    getLibrariesPath(libraryPath), "ensureDirectoryExists") }
                  : imported \in ImportReplies }
      [] pc = "getMicroPythonVersionFromBoard" ->
            { Wait(<<>>, libraryPath, "getMicroPythonVersionFromBoard") }
      [] OTHER -> {}

TimedOutOpsEntering(before) == before \o << GetPrompt, EnterRaw >>

\* the operations a helper has issued when its getPromptWithTimeout rejects
TimedOutOps(before) == before \o << GetPrompt >>

\* getPromptWithTimeout lines 111-113 when the prompt does not appear within
\* the timeout: pTimeout rejects, the promise of board.get_prompt() it was
\* given is left pending, and the rejection leaves the helper that waited
PromptTimeout ==
    /\ \E wait \in PromptWaits :
         /\ log' = log \o TimedOutOps(wait.before)
         /\ libraryPath' = wait.path
    /\ inFlight' = inFlight + 1
    /\ IF pc = "writeFile"
       THEN Reject(Err(PromptTimedOut, <<>>))
       ELSE IF entry = "getMicroPythonVersionFromPort"
       THEN /\ pc' = "done"
            /\ result' = "rejected"
            /\ error' = Err(PromptTimedOut, <<>>)
            /\ UNCHANGED wfResult
       ELSE /\ Throw(Err(PromptTimedOut, <<>>))
            /\ UNCHANGED wfResult
    /\ UNCHANGED << inputs, chunkSize, i, currentProgress, output, progress, fileIdx, folderIdx,
                    hashOut, bvars, pinputs, pstate, uvars, portVersion, rvars >>

\* the finally block of installPackage lines 359-361 when board.fs_rm rejects:
\* the rejection of cleanUp leaves the finally block and takes the place of
\* the error the catch block threw
CleanUpRejects ==
    /\ pc = "finally"
    /\ log' = Append(log, FsRm(ArchiveName))
    /\ error' = Err(RemovalFailed, << ArchiveName >>)
    /\ IF entry = "packageAndInstall"
       THEN /\ pc' = "finallyOfPackageAndInstall"
            /\ UNCHANGED result
       ELSE /\ pc' = "done"
            /\ result' = "rejected"
    /\ UNCHANGED << inputs, wvars, ivars, bvars >>
    /\ UNCHANGED pvars

NextFaulty ==
    \/ Next
    \/ NextPort
    \/ PromptTimeout
    \/ CleanUpRejects

InitFaulty == Init \/ InitPort

SpecFaulty == InitFaulty /\ [][NextFaulty]_vars

\* ============================================================ properties
\* positions in the log of the board operations of one kind
Pos(op, stmt) == { k \in 1..Len(log) : log[k].op = op /\ log[k].stmt = stmt }

\* the chunk validations and the write statements sent so far
ChunkOps == Pos("exec_raw", "crc")
WriteOps == Pos("exec_raw", "w(d[:-4])")
\* every statement of an upload
UploadOps == Pos("execfile", "crc.py") \cup Pos("exec_raw", "open") \cup ChunkOps \cup WriteOps
DeleteCalls == Pos("exec_raw", "remove_directory_recursive")
StatOps == Pos("exec_raw", "os.stat")
Removals == Pos("fs_rm", "")

RECURSIVE Concat(_)
Concat(seqs) == IF seqs = <<>> THEN <<>> ELSE Head(seqs) \o Concat(Tail(seqs))

\* the library path the installer works with during a call
ExpectedLibPath ==
    IF libraryPath # Null THEN libraryPath
    ELSE IF sysLibPath = <<>> THEN << "/lib" >> ELSE sysLibPath

\* package folders and root-level files of the package, in packageFiles order
FoldersOfPackage == getPackageFolders(packageFiles)
RootFilesOfPackage == FilesInLibRoot(packageFiles)

\* positions of the folders / root files that existed when the call began
ExistingFolders0 ==
    { k \in 1..Len(FoldersOfPackage) : (ExpectedLibPath \o << FoldersOfPackage[k] >>) \in boardFs0 }
ExistingRootFiles0 ==
    { k \in 1..Len(RootFilesOfPackage) : (ExpectedLibPath \o << RootFilesOfPackage[k] >>) \in boardFs0 }

Least(S) == CHOOSE k \in S : \A j \in S : k <= j
Greatest(S) == CHOOSE k \in S : \A j \in S : j <= k

WouldOverwriteFile == "Installation would overwrite existing file in the root of the lib folder"
WouldOverwriteFolder == "Installation would overwrite existing package folder"

\* C1: when writeFile resolves, the payloads written by its write statements,
\* concatenated in order, are exactly the bytes of the source file, whatever
\* retries happened on the way.
C1_WrittenEqualsSource ==
    wfResult = "resolved" =>
        /\ Concat(writes) = src
        /\ Len(writes) = Cardinality(WriteOps)

\* a direct call that resolved after eight halvings (512 down to 2), with a
\* full chunk followed by a shorter last chunk
C1_Witness ==
    /\ entry = "writeFile"
    /\ wfResult = "resolved"
    /\ Len(src) = 3
    /\ Len(writes) = 2
    /\ Len(writes[2]) = 1
    /\ Cardinality(ChunkOps) = 10

\* C2: installPackage attempts the removal of the uploaded archive (fs_rm on
\* the archive's base name) exactly once on every exit path, and it is the
\* last board operation of the call.
C2_RemovalOnceAndLast ==
    entry = "installPackage" =>
        /\ pc # "done" => Removals = {}
        /\ pc = "done" =>
             /\ Removals = { Len(log) }
             /\ log[Len(log)] = FsRm(ArchiveName)
             /\ result \in { "resolved", "rejected" }

\* an install that failed during the upload and has returned
C2_Witness ==
    /\ entry = "installPackage"
    /\ pc = "done"
    /\ result = "rejected"
    /\ wfResult = "rejected"
    /\ ChunkOps # {}

\* C3: a successful installPackage performs its stages in the order upload
\* completed, hash verification, extraction, archive removal; verification
\* starts only after the upload resolved, extraction only after the hash reply
\* was 1, and the removal is the last operation.
C3_StageOrder ==
    entry = "installPackage" =>
        LET closed == { k \in Pos("exec_raw", "f.close") : k < Len(log) /\ log[k + 1] = ExitRaw }
            loads  == Pos("execfile", "validate_hash.py")
            hashed == Pos("exec_raw", "validate_hash")
            probes == Pos("exec_raw", "import tarfile")
            untars == Pos("exec_raw", "untar")
        IN  /\ \A v \in loads :
                 /\ wfResult = "resolved"
                 /\ \E c \in closed : c < v /\ \A u \in UploadOps : u < c
            /\ \A x \in probes :
                 /\ hashOut = Printed("1")
                 /\ \E h \in hashed : h < x
            /\ \A r \in Removals : r = Len(log)
            /\ result = "resolved" =>
                 /\ Cardinality(closed) = 1 /\ Cardinality(hashed) = 1
                 /\ Cardinality(untars) = 1 /\ Cardinality(Removals) = 1
                 /\ \E c \in closed, h \in hashed, x \in probes, u \in untars, r \in Removals :
                      c < h /\ h < x /\ x < u /\ u < r

\* an install that succeeded after deleting an existing folder
C3_Witness ==
    /\ entry = "installPackage"
    /\ result = "resolved"
    /\ DeleteCalls # {}
    /\ Cardinality(ChunkOps) > 1

\* C4: installPackage succeeds only if validate_hash replied 1; with any other
\* reply it fails with the hash-mismatch error and no untar statement is sent.
C4_SuccessNeedsHashOne ==
    entry = "installPackage" =>
        /\ result = "resolved" => hashOut = Printed("1")
        /\ Pos("exec_raw", "untar") \cup Pos("exec_raw", "import tarfile") # {}
             => hashOut = Printed("1")
        /\ hashOut \notin { <<>>, Printed("1") } =>
             /\ error = Wrap(Err("Hash mismatch", <<>>))
             /\ result # "resolved"
             /\ Pos("exec_raw", "untar") = {}

\* an install that returned after the board reported a hash mismatch
C4_Witness ==
    /\ entry = "installPackage"
    /\ pc = "done"
    /\ hashOut = Printed("0")
    /\ result = "rejected"

\* C5: a chunk is always sent at the current offset; on reply 0 the chunk size
\* is halved rounding down, the offset stays and no write is issued, so the next
\* chunk starts at the same offset; the offset changes only in a step whose
\* reply was 1 and whose payload was written, and then by the chunk size.
C5_RetrySameOffset ==
    [][ (pc = "writeLoop" /\ i < Len(src) /\ Len(log') > Len(log)) =>
          LET sent == log'[Len(log) + 1]
              payload == SubSeq(src, i + 1, Min(i + chunkSize, Len(src)))
          IN  /\ sent = ExecRaw("crc", << i, Len(payload) >>)
              /\ boardD' = payload \o getCRC32(payload)
              /\ output' = Printed("0") =>
                   /\ chunkSize' = chunkSize \div 2
                   /\ i' = i
                   /\ writes' = writes
                   /\ WriteOps' = WriteOps
              /\ i' # i =>
                   /\ output' = Printed("1")
                   /\ writes' = Append(writes, payload)
                   /\ log' = log \o << sent, ExecRaw("w(d[:-4])", <<>>) >>
                   /\ i' = i + chunkSize
                   /\ chunkSize' = chunkSize
      ]_vars

\* a chunk at offset 2 was just answered with 0 after an earlier chunk was written
C5_Witness ==
    /\ pc = "writeLoop"
    /\ output = Printed("0")
    /\ i = 2
    /\ chunkSize = 1
    /\ Len(writes) = 1
    /\ log[Len(log)] = ExecRaw("crc", << 2, 1 >>)

\* C6: the chunk size never increases during a writeFile call, and every chunk
\* sent carries a payload of at most the chunk size in force when it is sent,
\* so after a reduction to s every later chunk has at most s payload bytes.
C6_ChunkSizeNeverGrows ==
    [][ /\ chunkSize' <= chunkSize
        /\ (pc = "writeLoop" /\ i < Len(src) /\ Len(log') > Len(log)) =>
              /\ log'[Len(log) + 1].stmt = "crc"
              /\ log'[Len(log) + 1].arg[2] <= chunkSize
              /\ Len(boardD') <= chunkSize + 4
      ]_vars

\* a call that began with chunks of 3 bytes, was reduced to 1 and then wrote
\* the file in three chunks of one byte
C6_Witness ==
    /\ wfResult = "resolved"
    /\ chunkSize = 1
    /\ \E k \in ChunkOps : log[k].arg[2] = 3
    /\ Len(writes) = 3

CrcFailed == "CRC32 check failed at byte"

\* C7: when a failed validation would halve the chunk size below 1, writeFile
\* rejects with the CRC error naming the offset and the end offset of the
\* failed chunk, closes the file, and validates or writes no chunk afterwards.
C7_AbortBelowOne ==
    /\ [](error.kind = CrcFailed =>
            /\ wfResult = "rejected"
            /\ chunkSize < 1
            /\ LET last == Greatest(ChunkOps)
               IN  /\ error.detail = << log[last].arg[1], log[last].arg[1] + log[last].arg[2] >>
                   /\ log[last + 1] = ExecRaw("f.close", <<>>)
                   /\ \A w \in WriteOps : w < last)
    /\ [][ (pc = "writeLoop" /\ i < Len(src) /\ Len(log') > Len(log)
            /\ output' # Printed("1") /\ chunkSize \div 2 < 1) =>
              /\ wfResult' = "rejected"
              /\ error'.kind = CrcFailed
              /\ pc' # "writeLoop"
         ]_vars
    /\ [][ wfResult = "rejected" =>
              /\ ChunkOps' = ChunkOps
              /\ WriteOps' = WriteOps
              /\ writes' = writes
         ]_vars

\* a direct call that wrote two bytes and aborted on the chunk at offset 2
C7_Witness ==
    /\ entry = "writeFile"
    /\ pc = "done"
    /\ error.kind = CrcFailed
    /\ error.detail = << 2, 3 >>
    /\ Len(writes) >= 1

NoUploadNoDeletion ==
    /\ UploadOps = {}
    /\ DeleteCalls = {}
    /\ Pos("execfile", "remove_directory.py") = {}
    /\ writes = <<>>

C9_OverwriteDeletesExisting ==
    (entry = "installPackage" /\ overwriteExisting) =>
        /\ \A k \in DeleteCalls :
             \E f \in ExistingFolders0 : log[k].arg = ExpectedLibPath \o << FoldersOfPackage[f] >>
        /\ (UploadOps # {} \/ pc = "writeFile") =>
             \A f \in ExistingFolders0 :
               \E k \in DeleteCalls :
                 /\ log[k].arg = ExpectedLibPath \o << FoldersOfPackage[f] >>
                 /\ \A u \in UploadOps : k < u
        /\ error.kind \notin { WouldOverwriteFolder, WouldOverwriteFile }
        /\ (pc = "done" /\ error.kind # "Failed to delete existing package folder") =>
             Pos("execfile", "crc.py") # {}

\* an install over a package with two folders of which one existed
C9_Witness ==
    /\ entry = "installPackage"
    /\ overwriteExisting
    /\ result = "resolved"
    /\ Len(FoldersOfPackage) = 2
    /\ Cardinality(ExistingFolders0) = 1
    /\ Cardinality(DeleteCalls) = 1

C11_FourthArgumentKeepsFolders ==
    (entry = "packageAndInstall" /\ fourthArg = "false") =>
        /\ DeleteCalls = {}
        /\ boardFs0 \subseteq boardFs

\* C12: once packageAndInstall has returned or rejected after the session
\* was open, the session is closed, and it was closed by packageAndInstall
\* itself, not by the inner call of package.
C12_SessionClosedOnEveryExit ==
    (entry = "packageAndInstall" /\ pc = "done" /\ canOpen) =>
        /\ ~sessionOpen
        /\ closedBy = "packageAndInstall"

\* C13: once packageAndInstall has returned or rejected, a local archive file
\* that was created during the call has been removed, also when archiving
\* failed after the file was created (a removal that was attempted and failed
\* is left aside).
C13_LocalArchiveRemovedOnEveryExit ==
    (entry = "packageAndInstall" /\ pc = "done" /\ error.kind # "Failed to remove archive") =>
        archiveFile \in { "none", "removed" }

\* C14: with compileFiles = false, package performs no board operation while
\* it builds the archive: it does not open the session, it sends no
\* architecture or format query, and it does not fail because the session
\* cannot be opened.
C14_NoBoardOperationWithoutCompilation ==
    (entry = "package" /\ ~compileFiles) =>
        /\ Pos("open", "") = {}
        /\ Pos("exec_raw", "platform.platform") = {}
        /\ Pos("exec_raw", "sys.implementation._mpy") = {}
        /\ error.kind # "Failed to open port"

\* the call is past the decision on the compile hook
HookDecided ==
    /\ entry \in { "package", "packageAndInstall" }
    /\ pc \notin { "package", "packageAndInstall", "packageForArchitectureAndFormat" }

C16_CompileFailureShipsRaw ==
    /\ \A k \in DOMAIN downloads :
         LET filePath == packageJson.urls[k]
         IN  filePath \in compileErrors =>
               /\ hook
               /\ downloads[k] = "done"
               /\ filePath \in staged
               /\ CompiledPath(filePath) \notin staged
               /\ archiveFile \in { "partial", "written", "removed" } => filePath \in archived
    /\ \A j \in DOMAIN downloads :
         LET other == packageJson.urls[j]
         IN  (downloads[j] = "done" /\ other \notin compileErrors) =>
               (IF hook THEN CompiledPath(other) ELSE other) \in staged
    /\ (compileErrors # {} /\ pc = "awaitDownloads" /\ PromiseAll(downloads) = "rejected") =>
         \E k \in DOMAIN downloads :
           downloads[k] = "failed" /\ packageJson.urls[k] \notin compileErrors

\* a package call that resolved after m/x.py failed to compile and a.py compiled
C16_Witness ==
    /\ entry = "package"
    /\ result = "resolved"
    /\ compileErrors = { << "m", "x.py" >> }
    /\ << "m", "x.py" >> \in archived
    /\ << "a.mpy" >> \in archived

\* C17: once archiveRepository has returned or thrown, the staging directory
\* it created has been removed, on success and on failure (a removal that was
\* attempted and failed is left aside).
C17_StagingRemovedWhenArchivingEnds ==
    (/\ staging # "none"
     /\ pc \notin { "downloadFilesFromRepository", "awaitDownloads", "createTarGzArchive" }
     /\ error.kind # "Failed to remove directory") =>
        staging = "removed"

\* C18: every path of the packageFiles of an ArchiveResult is a file of the
\* archive that was produced, also when the compile hook replaced downloaded
\* sources by their compiled outputs.
C18_PackageFilesAreInArchive ==
    \A k \in DOMAIN archiveResult : archiveResult[k] \in archived

\* C19: the archive is created only after every download of the manifest and
\* its hook have completed: while the archive file is being written, and ever
\* after, no download is in flight or failed, and when a download has failed
\* no archive file is created although other downloads go on.
C19_ArchiveAfterAllDownloads ==
    /\ archiveFile # "none" => \A k \in DOMAIN downloads : downloads[k] = "done"
    /\ pc = "createTarGzArchive" => \A k \in DOMAIN downloads : downloads[k] = "done"
    /\ (\E k \in DOMAIN downloads : downloads[k] = "failed") => archiveFile = "none"

\* the archive is being written after two downloads went through the hook, one
\* of them with a failed compilation
C19_Witness ==
    /\ archiveFile = "writing"
    /\ hook
    /\ Len(downloads) = 2
    /\ compileErrors # {}

\* C20: when a custom manifest is supplied no package.json is fetched, the
\* manifest in use is the custom one, one download is started per entry of its
\* urls, the staged files are files of those entries only (under their
\* compiled names when the hook compiled them), every entry is staged once the
\* archive is created, and the version of the custom manifest, when it has
\* one, is the version in the archive name.
C20_CustomManifestIsUsed ==
    (entry \in { "package", "packageAndInstall" } /\ customPackageJson # NoManifest) =>
        LET urls == customPackageJson.urls
        IN  /\ ~fetched
            /\ packageJson \in { NoManifest, customPackageJson }
            /\ packageJson = customPackageJson => DOMAIN downloads = DOMAIN urls
            /\ \A f \in staged :
                 \E k \in DOMAIN urls : f = urls[k] \/ (hook /\ f = CompiledPath(urls[k]))
            /\ archiveFile # "none" =>
                 /\ \A k \in DOMAIN urls :
                      urls[k] \in staged \/ (hook /\ CompiledPath(urls[k]) \in staged)
                 /\ ~hook => staged = { urls[k] : k \in DOMAIN urls }
                 /\ customPackageJson.version # <<>> => archiveName = customPackageJson.version

\* a package call with a custom manifest of two entries and version 1.0.0
\* resolved with exactly these two files in the archive
C20_Witness ==
    /\ entry = "package"
    /\ customPackageJson = ManifestA
    /\ repoPackageJson = ManifestB
    /\ result = "resolved"
    /\ ~hook
    /\ archiveName = << "1.0.0" >>
    /\ archived = { << "m", "x.py" >>, << "a.py" >> }

\* the url targets of a manifest and of every manifest reachable through deps
RECURSIVE TargetsOf(_)
TargetsOf(manifest) ==
    { manifest.urls[k] : k \in DOMAIN manifest.urls }
        \cup UNION { TargetsOf(manifest.deps[d]) : d \in DOMAIN manifest.deps }

\* C21: for a root manifest that declares deps, the files staged for the
\* archive and the packageFiles of the result contain the url targets of
\* every manifest reachable from the root (stated for calls without compile
\* hook, where a target is staged under its own name).
C21_DependenciesAreStaged ==
    (/\ entry = "package"
     /\ result = "resolved"
     /\ ~hook
     /\ packageJson.deps # <<>>) =>
        /\ TargetsOf(packageJson) \subseteq archived
        /\ TargetsOf(packageJson) \subseteq { archiveResult[k] : k \in DOMAIN archiveResult }

\* the last path segment of a url with only a trailing ".git" removed
LastSegmentWithoutDotGit(url) ==
    LET last == url.parts[Len(url.parts)]
    IN  IF last # <<>> /\ last[Len(last)] = ".git" THEN SubSeq(last, 1, Len(last) - 1) ELSE last

\* C22: the archive file name is <name>-<version>.tar.gz, where name is the
\* manifest's name or else the last path segment of the repository url with
\* only a trailing ".git" removed, and version is the manifest's version, or
\* else "latest" for the ref HEAD, or else the ref without a leading "v"
\* (stated for urls that name an owner and a repository).
C22_ArchiveFileName ==
    (entry = "archiveRepository" /\ pc = "done" /\ Len(repoUrl.parts) >= 2) =>
        LET name == IF packageJson.name # "" THEN << packageJson.name >>
                    ELSE LastSegmentWithoutDotGit(repoUrl)
            ref == IF version[1] = "v" THEN Tail(version) ELSE version
            versionInName == IF packageJson.version # <<>> THEN packageJson.version
                             ELSE IF version = << "HEAD" >> THEN << "latest" >>
                             ELSE ref
        IN  tarGzFileName = name \o << "-" >> \o versionInName \o << ".tar.gz" >>

\* C23: for a url with owner, repository and sub-path, getRawFileURL maps
\* github:owner/repo/sub and https://github.com/owner/repo/sub to
\* https://raw.githubusercontent.com/owner/repo/<ref>/sub, and
\* gitlab:owner/repo/sub and https://gitlab.com/owner/repo/sub to
\* https://gitlab.com/owner/repo/-/raw/<ref>/sub.
C23_RewritesToRawUrl ==
    (entry = "getRawFileURL" /\ pc # "getRawFileURL" /\ Len(repoUrl.parts) >= 3) =>
        LET owner == repoUrl.parts[1]
            repo == repoUrl.parts[2]
            sub == SubSeq(repoUrl.parts, 3, Len(repoUrl.parts))
        IN  /\ repoUrl.host \in { "github:", "https://github.com/" } =>
                 /\ rawFileURL.host = "https://raw.githubusercontent.com/"
                 /\ rawFileURL.parts = << owner, repo, version >> \o sub
            /\ repoUrl.host \in { "gitlab:", "https://gitlab.com/" } =>
                 /\ rawFileURL.host = "https://gitlab.com/"
                 /\ rawFileURL.parts = << owner, repo, << "-" >>, << "raw" >>, version >> \o sub

\* https://gitlab.com/o/r.git/s.py was rewritten for the ref v2.0.0
C23_Witness ==
    /\ entry = "getRawFileURL"
    /\ pc = "getRawFileURLAgain"
    /\ repoUrl = [host |-> "https://gitlab.com/",
                  parts |-> << << "o" >>, << "r", ".git" >>, << "s.py" >> >>]
    /\ version = << "v", "2.0.0" >>
    /\ rawFileURL.host = "https://gitlab.com/"

\* C24: getRawFileURL is idempotent: applied to the url it returned, with the
\* same ref, it returns that url again; and an https url that is neither a
\* github.com nor a gitlab.com url is returned unchanged.
C24_RewriteIsIdempotent ==
    (entry = "getRawFileURL" /\ pc = "done") =>
        /\ rewrittenAgain = rawFileURL
        /\ repoUrl.host \in { "https://raw.githubusercontent.com/", "https://example.org/" } =>
             rawFileURL = repoUrl

\* C26: a writeFile call that has entered raw mode has left it when it
\* returns, on the success path and on the chunk-corruption abort path: the
\* board is not in raw mode and exit_raw_repl was the last operation.
C26_RawModeLeftOnReturn ==
    (entry = "writeFile" /\ pc = "done" /\ Pos("enter_raw_repl", "") # {}) =>
        /\ ~raw
        /\ log[Len(log)] = ExitRaw

\* C27: in an installPackage run the board is asked for the library path at
\* most once, and the library path has been resolved before the first
\* statement of the archive upload, whatever packageFiles and
\* overwriteExisting are.
C27_LibraryPathResolvedBeforeUpload ==
    entry = "installPackage" =>
        /\ Cardinality(Pos("exec_raw", "sys.path")) <= 1
        /\ \A k \in Pos("exec_raw", "sys.path") : \A u \in UploadOps : k < u
        /\ UploadOps # {} => libraryPath # Null

\* the validations the board answered with a failure so far
Failures == Cardinality(ChunkOps) - Cardinality(WriteOps)

RECURSIVE HalvedTimes(_, _)
HalvedTimes(size, times) == IF times = 0 THEN size ELSE HalvedTimes(size \div 2, times - 1)

\* the lengths of the chunks that cover a file from an offset on when every
\* one of them is validated at once with one chunk size
RECURSIVE ChunkLengths(_, _, _)
ChunkLengths(length, offset, size) ==
    IF offset >= length
    THEN <<>>
    ELSE << Min(size, length - offset) >> \o ChunkLengths(length, offset + size, size)

\* the destination has been opened: waiting for the prompt and loading the
\* validation helper succeeded
UploadOpened == Pos("exec_raw", "open") # {}

RefusedForExisting ==
    /\ entry = "installPackage"
    /\ pc = "done"
    /\ error.kind \in { WouldOverwriteFile, WouldOverwriteFolder }

\* the operations that only read from the board
ReadOnlyOps ==
    { k \in 1..Len(log) :
        \/ log[k].op \in { "get_prompt", "enter_raw_repl", "exit_raw_repl" }
        \/ log[k].op = "exec_raw" /\ log[k].stmt \in { "sys.path", "os.stat" } }

\* C29 as stated: when installPackage fails with a would-overwrite error, no
\* operation that creates, modifies or removes a file or directory on the
\* board has been issued, and the board's filesystem is as before the call.
C29_AsStated ==
    RefusedForExisting =>
        /\ ReadOnlyOps = 1..Len(log)
        /\ Removals = {}
        /\ boardFs = boardFs0

\* C29: when installPackage fails with a would-overwrite error, it has
\* issued no upload, deletion or extraction; every operation it issued only
\* reads from the board, except the last one, which is the one removal of the
\* archive file by the cleanup; folders and files of the library are as before.
C29_RefusalOnlyRemovesArchive ==
    RefusedForExisting =>
        /\ NoUploadNoDeletion
        /\ Pos("exec_raw", "untar") = {}
        /\ Removals = { Len(log) }
        /\ log[Len(log)] = FsRm(ArchiveName)
        /\ ReadOnlyOps = 1..(Len(log) - 1)
        /\ boardFs = boardFs0
        /\ ~overwriteExisting

\* an install refused for an existing root-level file after two checks
C29_Witness ==
    /\ RefusedForExisting
    /\ error.kind = WouldOverwriteFile
    /\ Cardinality(StatOps) = 2
    /\ Removals = { Len(log) }

\* C30: when a step of installPackage has failed, the error the call rejects
\* with is the failure of that step with the prefix of installPackage,
\* whether the removal of the archive from the board succeeds or fails.
C30_StepFailureIsDelivered ==
    [][ (entry = "installPackage" /\ pc = "finally" /\ error # NoError /\ pc' = "done") =>
            /\ result' = "rejected"
            /\ error' = error
            /\ error'.wrapped
      ]_vars

\* C25: a board operation is issued only when no operation issued earlier on
\* the session is still outstanding, also after a prompt wait has timed out
\* and the installer goes on to its cleanup step.
C25_OneOperationOutstanding ==
    [][ Len(log') > Len(log) => inFlight = 0 ]_vars

\* C40: when getMicroPythonVersionFromPort has ended, by returning the
\* version or by rejecting, the session it opened is closed.
C40_PortClosedOnEveryExit ==
    (entry = "getMicroPythonVersionFromPort" /\ pc = "done") => ~sessionOpen

\* the board operations of a log, cleanup removals left out
WithoutRemovals(ops) == SelectSeq(ops, LAMBDA o : o.op # "fs_rm")

\* C31: the step in which a prompt wait times out issues nothing after that
\* wait: the wait is the last operation of the step, the operation before it,
\* if any, completed another helper (it left raw mode or ran a file), raw
\* mode is not entered and no destination is opened by the step, and the
\* call fails with the timeout error; writeFile, verifyHash and the version
\* query issue the wait alone. Afterwards the call issues nothing but the
\* removal of the cleanup.
C31_TimeoutIssuesNothing ==
    /\ [][ inFlight' > inFlight =>
             /\ Len(log') > Len(log)
             /\ log'[Len(log')] = GetPrompt
             /\ Len(log') > Len(log) + 1 =>
                    log'[Len(log') - 1].op \in { "exit_raw_repl", "execfile" }
             /\ pc \in { "writeFile", "verify", "getMicroPythonVersionFromBoard" } =>
                    log' = Append(log, GetPrompt)
             /\ raw' = raw /\ fOpen' = fOpen /\ boardFile' = boardFile /\ writes' = writes
             /\ Pos("exec_raw", "open")' = Pos("exec_raw", "open")
             /\ error'.kind = PromptTimedOut
             /\ pc' \in { "finally", "done" }
             /\ pc' = "done" => result' = "rejected"
             /\ pc = "writeFile" => wfResult' = "rejected" /\ UploadOps' = {}
      ]_vars
    /\ [][ inFlight > 0 => WithoutRemovals(log') = WithoutRemovals(log) ]_vars

\* the existence check found the package folder and the prompt wait of the
\* folder deletion that follows it timed out
C31_Witness ==
    /\ inFlight = 1
    /\ error.kind = PromptTimedOut
    /\ pc = "finally"
    /\ Len(log) > 1
    /\ log[Len(log)] = GetPrompt
    /\ log[Len(log) - 1] = ExitRaw
    /\ StatOps # {}
    /\ DeleteCalls = {}
    /\ overwriteExisting
    /\ \E k \in StatOps : log[k].arg \in boardFs

\* the raw reply that was read
ReplyRead == entry = "extractREPLMessage" /\ pc = "done"

\* C32: a raw reply that does not start with OK is reported as an error: the
\* helper that read it rejects, and no message, existence result, CRC result
\* or hash result is made of it.
C32_NotOKIsProtocolError ==
    (ReplyRead /\ replyParts.prefix # << "O", "K" >>) =>
        /\ result = "rejected"
        /\ error # NoError
        /\ replyResult = NoReplyResult

C37_SuccessOnlyForExactReply ==
    (ReplyRead /\ replyResult.crcCorrect) => RawReply(replyParts) = Printed("1")

LastCreated(out) ==
    LET lines == { k \in 1..(Len(out) - 3) :
                     out[k] = "Creating directory " /\ out[k + 2] = "CR" /\ out[k + 3] = "LF" }
    IN  out[Greatest(lines) + 1]

UntarRun == Pos("exec_raw", "untar") # {}

\* C34: once untar has run, a reply containing '[Errno 17] EEXIST' has made
\* the extraction fail with the already-exists error naming the path of the
\* last 'Creating directory' line of the reply; any other reply without
\* 'Extraction complete' has made it fail with the extraction error; and the
\* extraction succeeded exactly for a reply with the sentinel and no EEXIST.
C34_UntarReplyDecides ==
    (entry = "installPackage" /\ UntarRun) =>
        LET exists == Includes(output, "[Errno 17] EEXIST")
            complete == Includes(output, "Extraction complete")
        IN  /\ output \in UntarReplies
            /\ exists =>
                 error = Wrap(Err("Failed to extract archive because file(s) already exists",
                                  << LastCreated(output) >>))
            /\ (~exists /\ ~complete) => error.kind = "Failed to extract archive" /\ error.wrapped
            /\ error = NoError <=> (complete /\ ~exists)
            /\ error = NoError => Extracted(libraryPath) \subseteq boardFs
            /\ pc = "done" => (result = "resolved" <=> (complete /\ ~exists))

\* an extraction refused after two directories were created names the second
C34_Witness ==
    /\ entry = "installPackage"
    /\ UntarRun
    /\ pc = "done"
    /\ error.kind = "Failed to extract archive because file(s) already exists"
    /\ error.detail = << "/lib/m/sub" >>

Remaining == << Len(src) - Min(i, Len(src)), chunkSize >>

LexLess(a, b) == a[1] < b[1] \/ (a[1] = b[1] /\ a[2] < b[2])

\* C36: every iteration of the loop of writeFile either advances the offset
\* by at least one byte or halves the chunk size, so what is left to do gets
\* smaller in each; and the call, once it has entered the loop, ends in
\* success or in the chunk-corruption error.
C36_LoopStepsDecrease ==
    [][ pc = "writeLoop" =>
          /\ pc' = "writeLoop" => LexLess(Remaining', Remaining)
          /\ pc' = "writeLoop" =>
                \/ i' >= i + 1 /\ chunkSize' = chunkSize
                \/ i' = i /\ chunkSize' = chunkSize \div 2 /\ chunkSize' >= 1
          /\ pc' # "writeLoop" =>
                \/ wfResult' = "resolved" /\ i >= Len(src)
                \/ wfResult' = "rejected" /\ error'.kind = CrcFailed
      ]_vars

\* C36, termination: under fair scheduling of the steps of writeFile, a call
\* that has entered the loop leaves it.
C36_WriteFileTerminates ==
    (pc = "writeLoop") ~> (wfResult # "pending")

\* C36: writeFile terminates: every iteration of its loop advances the
\* offset or halves the chunk size, and a call that entered the loop ends in
\* success or in the chunk-corruption error.
C36_WriteFileEnds == C36_LoopStepsDecrease /\ C36_WriteFileTerminates

\* a call that halved the chunk size, advanced, and left the loop with success
C36_Witness ==
    /\ entry = "writeFile"
    /\ pc = "done"
    /\ wfResult = "resolved"
    /\ Failures >= 1
    /\ Len(writes) >= 2

\* C38: getRawFileURL fails for a short-form github: or gitlab: url that has
\* fewer segments than owner and repo, fails with no other error for a url
\* it can rewrite, and never returns a url with a missing segment in it.
C38_TruncatedShortFormFails ==
    (entry = "getRawFileURL" /\ rawFileURL # NoUrl) =>
        LET truncated == repoUrl.host \in { "github:", "gitlab:" } /\ Len(repoUrl.parts) < 2
        IN  /\ truncated => rawFileURL.parts = <<>>
            /\ truncated => rawFileURL # NotImplemented
            /\ \A k \in 1..Len(rawFileURL.parts) : rawFileURL.parts[k] # Undefined

\* the signed 32-bit integer whose unsigned value has the big-endian bytes b
SignedOfBigEndian(b) ==
    (IF b[1] >= 128 THEN b[1] - 256 ELSE b[1]) * 16777216 + b[2] * 65536 + b[3] * 256 + b[4]

\* C39: the buffer sent for a chunk is the payload followed by four bytes,
\* each in 0..255, that are the big-endian encoding of CRC32(payload) taken
\* modulo 2^32, also when the CRC32 is negative, that is, has its top bit set.
C39_CrcIsBigEndianUnsigned ==
    boardD # <<>> =>
        LET payload == SubSeq(boardD, 1, Len(boardD) - CrcLength)
            crc == SubSeq(boardD, Len(boardD) - CrcLength + 1, Len(boardD))
        IN  /\ Len(boardD) = Len(payload) + 4
            /\ \A k \in 1..4 : crc[k] \in 0..255
            /\ SignedOfBigEndian(crc) = CRC32buf(payload)
            /\ CRC32buf(payload) < 0 <=> crc[1] >= 128

\* after a written chunk, a chunk was sent whose CRC32 has the top bit set
C39_Witness ==
    /\ boardD # <<>>
    /\ boardD[Len(boardD) - 3] >= 128
    /\ CRC32buf(SubSeq(boardD, 1, Len(boardD) - 4)) < 0
    /\ Len(writes) >= 1

====
